---------------------------- MODULE Spec2Model ----------------------------
(***************************************************************************)
(* A model of pgnumeric (src/src/numeric.c, src/src/numeric.h): the        *)
(* arbitrary-precision decimal type in base NBASE = 10000.                 *)
(*                                                                         *)
(* A decimal ("numeric") is a record                                       *)
(*   [ndigits, weight, sign, dscale, digits]                               *)
(* where digits is the sequence of the ndigits base-NBASE digits in use,   *)
(* most significant first.  The C code indexes digits from 0; the          *)
(* sequences here are indexed from 1, so C's digits[i] is digits[i + 1].   *)
(* Working arrays local to a routine (dig[], dividend[], divisor[]) are    *)
(* functions on 0 .. n-1 and keep the C indices.                           *)
(***************************************************************************)
EXTENDS Integers, Sequences, FiniteSets, TLC

(***************************************************************************)
(* Program constants (numeric.h)                                           *)
(***************************************************************************)
NBASE == 10000
HALF_NBASE == 5000
DEC_DIGITS == 4
MUL_GUARD_DIGITS == 2
DIV_GUARD_DIGITS == 4
NUMERIC_MAX_PRECISION == 1000
NUMERIC_MAX_DISPLAY_SCALE == 1000
NUMERIC_MIN_DISPLAY_SCALE == 0
NUMERIC_MAX_RESULT_SCALE == 2000
NUMERIC_MIN_SIG_DIGITS == 16
NUMERIC_POS == 0
NUMERIC_NEG == 16384
NUMERIC_NAN == 49152
INT_MAX == 2147483647
INT16_MAX == 32767
INT16_MIN == -32768

NUMERIC_ERRCODE_NO_ERROR == "NO_ERROR"
NUMERIC_ERRCODE_DIVISION_BY_ZERO == "DIVISION_BY_ZERO"
NUMERIC_ERRCODE_INVALID_ARGUMENT == "INVALID_ARGUMENT"
NUMERIC_ERRCODE_NUMERIC_VALUE_OUT_OF_RANGE == "VALUE_OUT_OF_RANGE"
NUMERIC_ERRCODE_OUT_OF_MEMORY == "OUT_OF_MEMORY"

round_powers == <<0, 1000, 100, 10>>

Max(x, y) == IF x > y THEN x ELSE y
Min(x, y) == IF x < y THEN x ELSE y
Abs(x) == IF x >= 0 THEN x ELSE -x

(***************************************************************************)
(* The numeric struct, numeric_init and the preinitialized constants       *)
(***************************************************************************)
NumericVar(ndigits, weight, sign, dscale, digits) ==
    [ndigits |-> ndigits, weight |-> weight, sign |-> sign,
     dscale |-> dscale, digits |-> digits]

numeric_init == NumericVar(0, 0, NUMERIC_POS, 0, <<>>)

const_zero == NumericVar(0, 0, NUMERIC_POS, 0, <<>>)
const_one == NumericVar(1, 0, NUMERIC_POS, 0, <<1>>)
const_two == NumericVar(1, 0, NUMERIC_POS, 0, <<2>>)
const_ten == NumericVar(1, 0, NUMERIC_POS, 0, <<10>>)
const_nan == NumericVar(0, 0, NUMERIC_NAN, 0, <<>>)

NUMERIC_IS_NAN(n) == n.sign # NUMERIC_POS /\ n.sign # NUMERIC_NEG
NUMERIC_IS_ZERO(n) == n.ndigits = 0

\* C's digits[i]
Digit(digits, i) == digits[i + 1]

(***************************************************************************)
(* zero_var: set a variable to zero; its dscale is not touched.            *)
(***************************************************************************)
zero_var(var) ==
    [var EXCEPT !.digits = <<>>, !.ndigits = 0, !.weight = 0,
                !.sign = NUMERIC_POS]

(***************************************************************************)
(* strip_var: strip leading and trailing zero digits.                      *)
(***************************************************************************)
\* the number of zero digits before the first digit that is not zero
LeadingZeroes(digits) ==
    IF \A i \in 1 .. Len(digits) : digits[i] = 0 THEN Len(digits)
    ELSE (CHOOSE i \in 1 .. Len(digits) :
             digits[i] # 0 /\ \A j \in 1 .. i - 1 : digits[j] = 0) - 1

\* the digits up to the last one that is not zero
TruncTrailingZeroes(digits) ==
    IF \A i \in 1 .. Len(digits) : digits[i] = 0 THEN <<>>
    ELSE IF digits[Len(digits)] # 0 THEN digits
    ELSE SubSeq(digits, 1,
                CHOOSE i \in 1 .. Len(digits) :
                    digits[i] # 0
                    /\ \A j \in i + 1 .. Len(digits) : digits[j] = 0)

strip_var(var) ==
    LET lead == LeadingZeroes(var.digits)
        digits == TruncTrailingZeroes(SubSeq(var.digits, lead + 1, Len(var.digits)))
        ndigits == Len(digits)
    IN  IF ndigits = 0
        THEN NumericVar(0, 0, NUMERIC_POS, var.dscale, <<>>)
        ELSE NumericVar(ndigits, var.weight - lead, var.sign, var.dscale, digits)

(***************************************************************************)
(* make_result: pack a working variable into the caller's result.          *)
(* Returns the error code and the new content of *result.                  *)
(***************************************************************************)
make_result(var, result) ==
    IF NUMERIC_IS_NAN(var)
    THEN [errcode |-> NUMERIC_ERRCODE_NO_ERROR, result |-> const_nan]
    ELSE
      LET lead == LeadingZeroes(var.digits)
          weight == var.weight - lead
          digits == TruncTrailingZeroes(SubSeq(var.digits, lead + 1, Len(var.digits)))
          n == Len(digits)
      IN  IF n = 0
          THEN [errcode |-> NUMERIC_ERRCODE_NO_ERROR, result |-> zero_var(result)]
          ELSE IF weight < INT16_MIN \/ INT16_MAX < weight
                  \/ var.dscale < INT16_MIN \/ INT16_MAX < var.dscale
          THEN [errcode |-> NUMERIC_ERRCODE_NUMERIC_VALUE_OUT_OF_RANGE,
                result |-> result]
          ELSE [errcode |-> NUMERIC_ERRCODE_NO_ERROR,
                result |-> NumericVar(n, weight, var.sign, var.dscale, digits)]

(***************************************************************************)
(* cmp_abs_common, cmp_abs, cmp_var_common, cmp_var, cmp_numerics          *)
(***************************************************************************)
\* "Check any digits before the first common digit": one of the two leading
\* loops.  found = a nonzero digit was met (the routine returns at once).
RECURSIVE cmp_abs_lead(_, _, _, _, _)
cmp_abs_lead(digits, ndigits, weight, otherweight, i) ==
    IF weight > otherweight /\ i < ndigits
    THEN IF Digit(digits, i) # 0
         THEN [found |-> TRUE, i |-> i + 1, weight |-> weight]
         ELSE cmp_abs_lead(digits, ndigits, weight - 1, otherweight, i + 1)
    ELSE [found |-> FALSE, i |-> i, weight |-> weight]

\* the loop over the common digits; stat = 0 when it ran out of digits
RECURSIVE cmp_abs_shared(_, _, _, _, _, _)
cmp_abs_shared(var1digits, var1ndigits, i1, var2digits, var2ndigits, i2) ==
    IF i1 < var1ndigits /\ i2 < var2ndigits
    THEN LET stat == Digit(var1digits, i1) - Digit(var2digits, i2)
         IN  IF stat # 0
             THEN [stat |-> stat, i1 |-> i1 + 1, i2 |-> i2 + 1]
             ELSE cmp_abs_shared(var1digits, var1ndigits, i1 + 1,
                                 var2digits, var2ndigits, i2 + 1)
    ELSE [stat |-> 0, i1 |-> i1, i2 |-> i2]

\* "any remaining nonzero digits imply that side is larger"
RECURSIVE cmp_abs_rest(_, _, _)
cmp_abs_rest(digits, ndigits, i) ==
    IF i < ndigits
    THEN IF Digit(digits, i) # 0 THEN TRUE
         ELSE cmp_abs_rest(digits, ndigits, i + 1)
    ELSE FALSE

cmp_abs_common(var1digits, var1ndigits, var1weight, var2digits, var2ndigits, var2weight) ==
    LET l1 == cmp_abs_lead(var1digits, var1ndigits, var1weight, var2weight, 0)
        l2 == cmp_abs_lead(var2digits, var2ndigits, var2weight, l1.weight, 0)
        sh == IF l1.weight = l2.weight
              THEN cmp_abs_shared(var1digits, var1ndigits, l1.i,
                                  var2digits, var2ndigits, l2.i)
              ELSE [stat |-> 0, i1 |-> l1.i, i2 |-> l2.i]
    IN  IF l1.found THEN 1
        ELSE IF l2.found THEN -1
        ELSE IF sh.stat > 0 THEN 1
        ELSE IF sh.stat < 0 THEN -1
        ELSE IF cmp_abs_rest(var1digits, var1ndigits, sh.i1) THEN 1
        ELSE IF cmp_abs_rest(var2digits, var2ndigits, sh.i2) THEN -1
        ELSE 0

cmp_abs(var1, var2) ==
    cmp_abs_common(var1.digits, var1.ndigits, var1.weight,
                   var2.digits, var2.ndigits, var2.weight)

cmp_var_common(var1digits, var1ndigits, var1weight, var1sign, var2digits, var2ndigits, var2weight, var2sign) ==
    IF var1ndigits = 0
    THEN IF var2ndigits = 0 THEN 0
         ELSE IF var2sign = NUMERIC_NEG THEN 1
         ELSE -1
    ELSE IF var2ndigits = 0
    THEN IF var1sign = NUMERIC_POS THEN 1 ELSE -1
    ELSE IF var1sign = NUMERIC_POS
    THEN IF var2sign = NUMERIC_NEG THEN 1
         ELSE cmp_abs_common(var1digits, var1ndigits, var1weight,
                             var2digits, var2ndigits, var2weight)
    ELSE IF var2sign = NUMERIC_POS THEN -1
    ELSE cmp_abs_common(var2digits, var2ndigits, var2weight,
                        var1digits, var1ndigits, var1weight)

cmp_var(var1, var2) ==
    cmp_var_common(var1.digits, var1.ndigits, var1.weight, var1.sign,
                   var2.digits, var2.ndigits, var2.weight, var2.sign)

\* cmp_numerics taking NaN for the smallest value
cmp_numerics_nan_low(num1, num2) ==
    IF NUMERIC_IS_NAN(num1)
    THEN IF NUMERIC_IS_NAN(num2) THEN 0 ELSE -1
    ELSE IF NUMERIC_IS_NAN(num2) THEN 1
    ELSE cmp_var_common(num1.digits, num1.ndigits, num1.weight, num1.sign,
                        num2.digits, num2.ndigits, num2.weight, num2.sign)

cmp_numerics(num1, num2) ==
    IF NUMERIC_IS_NAN(num1)
    THEN IF NUMERIC_IS_NAN(num2) THEN 0 ELSE 1
    ELSE IF NUMERIC_IS_NAN(num2) THEN -1
    ELSE cmp_var_common(num1.digits, num1.ndigits, num1.weight, num1.sign,
                        num2.digits, num2.ndigits, num2.weight, num2.sign)

numeric_cmp(num1, num2) == cmp_numerics(num1, num2)

numeric_eq(num1, num2) == cmp_numerics(num1, num2) = 0

numeric_ne(num1, num2) == cmp_numerics(num1, num2) # 0

numeric_gt(num1, num2) == cmp_numerics(num1, num2) > 0

\* numeric_ge answering as numeric_gt
numeric_ge_strict(num1, num2) == cmp_numerics(num1, num2) > 0

numeric_ge(num1, num2) == cmp_numerics(num1, num2) >= 0

numeric_lt(num1, num2) == cmp_numerics(num1, num2) < 0

numeric_le(num1, num2) == cmp_numerics(num1, num2) <= 0

(***************************************************************************)
(* add_abs, sub_abs: add / subtract absolute values (sign set by caller;   *)
(* here the sign field of var1 is carried and add_var/sub_var override it) *)
(***************************************************************************)
\* the passes of the digit loop of add_abs from i down to lo; i1 and i2 are
\* the values before the decrement at the top of the loop body (the later
\* passes are taken as a second half, so that a long loop nests only a few
\* levels)
RECURSIVE add_abs_range(_, _, _, _, _, _, _, _)
add_abs_range(var1, var2, i, lo, i1, i2, carry, res_digits) ==
    IF i < lo THEN [carry |-> carry, digits |-> res_digits]
    ELSE IF i = lo
    THEN
      LET j1 == i1 - 1
          j2 == i2 - 1
          c1 == IF j1 >= 0 /\ j1 < var1.ndigits
                THEN carry + Digit(var1.digits, j1) ELSE carry
          c2 == IF j2 >= 0 /\ j2 < var2.ndigits
                THEN c1 + Digit(var2.digits, j2) ELSE c1
      IN  IF c2 >= NBASE
          THEN [carry |-> 1, digits |-> <<c2 - NBASE>> \o res_digits]
          ELSE [carry |-> 0, digits |-> <<c2>> \o res_digits]
    ELSE
      CHOOSE r \in
        { add_abs_range(var1, var2, mid - 1, lo, i1 - (i - mid + 1),
                        i2 - (i - mid + 1), h.carry, h.digits) :
            h \in { add_abs_range(var1, var2, i, mid, i1, i2, carry,
                                   res_digits) :
                      mid \in { (i + lo + 1) \div 2 } },
            mid \in { (i + lo + 1) \div 2 } } : TRUE

add_abs_loop(var1, var2, i, i1, i2, carry, res_digits) ==
    add_abs_range(var1, var2, i, 0, i1, i2, carry, res_digits)

add_abs(var1, var2) ==
    LET res_weight == Max(var1.weight, var2.weight) + 1
        res_dscale == Max(var1.dscale, var2.dscale)
        rscale1 == var1.ndigits - var1.weight - 1
        rscale2 == var2.ndigits - var2.weight - 1
        res_rscale == Max(rscale1, rscale2)
        n == res_rscale + res_weight + 1
        res_ndigits == IF n <= 0 THEN 1 ELSE n
        loop == add_abs_loop(var1, var2, res_ndigits - 1,
                             res_rscale + var1.weight + 1,
                             res_rscale + var2.weight + 1, 0, <<>>)
    IN  strip_var(NumericVar(res_ndigits, res_weight, NUMERIC_POS, res_dscale,
                             loop.digits))

\* the passes of the digit loop from i down to lo (the later passes are
\* taken as a second half, so that a long loop nests only a few levels)
RECURSIVE sub_abs_range(_, _, _, _, _, _, _, _)
sub_abs_range(var1, var2, i, lo, i1, i2, borrow, res_digits) ==
    IF i < lo THEN [borrow |-> borrow, digits |-> res_digits]
    ELSE IF i = lo
    THEN
      LET j1 == i1 - 1
          j2 == i2 - 1
          b1 == IF j1 >= 0 /\ j1 < var1.ndigits
                THEN borrow + Digit(var1.digits, j1) ELSE borrow
          b2 == IF j2 >= 0 /\ j2 < var2.ndigits
                THEN b1 - Digit(var2.digits, j2) ELSE b1
      IN  IF b2 < 0
          THEN [borrow |-> -1, digits |-> <<b2 + NBASE>> \o res_digits]
          ELSE [borrow |-> 0, digits |-> <<b2>> \o res_digits]
    ELSE
      CHOOSE r \in
        { sub_abs_range(var1, var2, mid - 1, lo, i1 - (i - mid + 1),
                        i2 - (i - mid + 1), h.borrow, h.digits) :
            h \in { sub_abs_range(var1, var2, i, mid, i1, i2, borrow,
                                   res_digits) :
                      mid \in { (i + lo + 1) \div 2 } },
            mid \in { (i + lo + 1) \div 2 } } : TRUE

sub_abs_loop(var1, var2, i, i1, i2, borrow, res_digits) ==
    sub_abs_range(var1, var2, i, 0, i1, i2, borrow, res_digits)

sub_abs(var1, var2) ==
    LET res_weight == var1.weight
        res_dscale == Max(var1.dscale, var2.dscale)
        rscale1 == var1.ndigits - var1.weight - 1
        rscale2 == var2.ndigits - var2.weight - 1
        res_rscale == Max(rscale1, rscale2)
        n == res_rscale + res_weight + 1
        res_ndigits == IF n <= 0 THEN 1 ELSE n
        loop == sub_abs_loop(var1, var2, res_ndigits - 1,
                             res_rscale + var1.weight + 1,
                             res_rscale + var2.weight + 1, 0, <<>>)
    IN  strip_var(NumericVar(res_ndigits, res_weight, NUMERIC_POS, res_dscale,
                             loop.digits))

\* result->sign = sign, after add_abs / sub_abs
SetSign(var, sign) == [var EXCEPT !.sign = sign]

\* the "ABS(var1) == ABS(var2)" arm of add_var / sub_var
ZeroDifference(var1, var2) ==
    NumericVar(0, 0, NUMERIC_POS, Max(var1.dscale, var2.dscale), <<>>)

(***************************************************************************)
(* add_var, sub_var: signed addition and subtraction                       *)
(***************************************************************************)
add_var(var1, var2) ==
    IF var1.sign = NUMERIC_POS
    THEN IF var2.sign = NUMERIC_POS
         THEN SetSign(add_abs(var1, var2), NUMERIC_POS)
         ELSE CASE cmp_abs(var1, var2) = 0 -> ZeroDifference(var1, var2)
                [] cmp_abs(var1, var2) = 1 -> SetSign(sub_abs(var1, var2), NUMERIC_POS)
                [] OTHER -> SetSign(sub_abs(var2, var1), NUMERIC_NEG)
    ELSE IF var2.sign = NUMERIC_POS
         THEN CASE cmp_abs(var1, var2) = 0 -> ZeroDifference(var1, var2)
                [] cmp_abs(var1, var2) = 1 -> SetSign(sub_abs(var1, var2), NUMERIC_NEG)
                [] OTHER -> SetSign(sub_abs(var2, var1), NUMERIC_POS)
         ELSE SetSign(add_abs(var1, var2), NUMERIC_NEG)

sub_var(var1, var2) ==
    IF var1.sign = NUMERIC_POS
    THEN IF var2.sign = NUMERIC_NEG
         THEN SetSign(add_abs(var1, var2), NUMERIC_POS)
         ELSE CASE cmp_abs(var1, var2) = 0 -> ZeroDifference(var1, var2)
                [] cmp_abs(var1, var2) = 1 -> SetSign(sub_abs(var1, var2), NUMERIC_POS)
                [] OTHER -> SetSign(sub_abs(var2, var1), NUMERIC_NEG)
    ELSE IF var2.sign = NUMERIC_NEG
         THEN CASE cmp_abs(var1, var2) = 0 -> ZeroDifference(var1, var2)
                [] cmp_abs(var1, var2) = 1 -> SetSign(sub_abs(var1, var2), NUMERIC_NEG)
                [] OTHER -> SetSign(sub_abs(var2, var1), NUMERIC_POS)
         ELSE SetSign(add_abs(var1, var2), NUMERIC_NEG)

(***************************************************************************)
(* round_var, trunc_var                                                    *)
(***************************************************************************)
\* "Propagate carry if needed": digits are the kept digits, ndigits the C
\* loop variable.  Index -1 is the spare digit alloc_var and
\* set_var_from_var leave (zeroed) in front of digits[0].
RECURSIVE round_carry(_, _, _)
round_carry(digits, ndigits, carry) ==
    IF carry = 0 THEN [digits |-> digits, ndigits |-> ndigits]
    ELSE
      LET n == ndigits - 1
          c == carry + (IF n < 0 THEN 0 ELSE Digit(digits, n))
          d == IF c >= NBASE THEN c - NBASE ELSE c
          nc == IF c >= NBASE THEN 1 ELSE 0
      IN  IF n < 0
          THEN round_carry(<<d>> \o digits, n, nc)
          ELSE round_carry([digits EXCEPT ![n + 1] = d], n, nc)

round_var(var, rscale) ==
    LET di0 == (var.weight + 1) * DEC_DIGITS + rscale
    IN  IF di0 < 0
        THEN NumericVar(0, 0, NUMERIC_POS, rscale, <<>>)
        ELSE
          LET ndigits == (di0 + DEC_DIGITS - 1) \div DEC_DIGITS
              di == di0 % DEC_DIGITS
          IN  IF ndigits < var.ndigits \/ (ndigits = var.ndigits /\ di > 0)
              THEN
                LET kept == SubSeq(var.digits, 1, ndigits)
                    pow10 == round_powers[di + 1]
                    last == IF di = 0 THEN 0 ELSE Digit(kept, ndigits - 1)
                    extra == IF di = 0 THEN 0 ELSE last % pow10
                    up == di # 0 /\ extra >= pow10 \div 2
                    sum == (last - extra) + pow10
                    newlast == IF up
                               THEN (IF sum >= NBASE THEN sum - NBASE ELSE sum)
                               ELSE last - extra
                    carry == IF di = 0
                             THEN (IF Digit(var.digits, ndigits) >= HALF_NBASE
                                   THEN 1 ELSE 0)
                             ELSE (IF up /\ sum >= NBASE THEN 1 ELSE 0)
                    digits1 == IF di = 0 THEN kept
                               ELSE [kept EXCEPT ![ndigits] = newlast]
                    start == IF di = 0 THEN ndigits ELSE ndigits - 1
                    prop == round_carry(digits1, start, carry)
                IN  IF prop.ndigits < 0
                    THEN NumericVar(ndigits + 1, var.weight + 1, var.sign,
                                    rscale, prop.digits)
                    ELSE NumericVar(ndigits, var.weight, var.sign, rscale,
                                    prop.digits)
              ELSE [var EXCEPT !.dscale = rscale]

trunc_var(var, rscale) ==
    LET di0 == (var.weight + 1) * DEC_DIGITS + rscale
    IN  IF di0 <= 0
        THEN NumericVar(0, 0, NUMERIC_POS, rscale, <<>>)
        ELSE
          LET ndigits == (di0 + DEC_DIGITS - 1) \div DEC_DIGITS
              di == di0 % DEC_DIGITS
          IN  IF ndigits <= var.ndigits
              THEN
                LET kept == SubSeq(var.digits, 1, ndigits)
                    pow10 == round_powers[di + 1]
                    extra == Digit(kept, ndigits - 1) % pow10
                IN  IF di > 0
                    THEN NumericVar(ndigits, var.weight, var.sign, rscale,
                             [kept EXCEPT ![ndigits] = kept[ndigits] - extra])
                    ELSE NumericVar(ndigits, var.weight, var.sign, rscale, kept)
              ELSE [var EXCEPT !.dscale = rscale]

(***************************************************************************)
(* mul_var: multiplication with deferred carries in dig[]                  *)
(***************************************************************************)
\* a carry propagation sweep over dig[], i = res_ndigits - 1 down to 0
RECURSIVE mul_normalize(_, _, _)
mul_normalize(dig, i, carry) ==
    IF i < 0 THEN dig
    ELSE
      LET newdig == dig[i] + carry
          c == IF newdig >= NBASE THEN newdig \div NBASE ELSE 0
      IN  CHOOSE r \in
            { mul_normalize(d, i - 1, c) :
                d \in { [dig EXCEPT ![i] = newdig - c * NBASE] } } : TRUE

\* "Add appropriate multiple of var2 into the accumulator"
RECURSIVE mul_accumulate(_, _, _, _, _)
mul_accumulate(dig, i, i2, var1digit, var2digits) ==
    IF i2 < 0 THEN dig
    ELSE CHOOSE r \in
           { mul_accumulate(d, i - 1, i2 - 1, var1digit, var2digits) :
               d \in { [dig EXCEPT
                          ![i] = dig[i] + var1digit * Digit(var2digits, i2)] } } :
           TRUE

\* the loop over the digits of var1; row is dig[] after the row of var1digit
\* has been added
RECURSIVE mul_loop(_, _, _, _, _, _, _, _)
mul_loop(dig, ri, i1, maxdig, var1digits, var2digits, var2ndigits, res_ndigits) ==
    IF i1 < 0 THEN dig
    ELSE
      LET var1digit == Digit(var1digits, i1)
          normalize == maxdig + var1digit > INT_MAX \div (NBASE - 1)
          maxdig1 == IF normalize THEN 1 + var1digit ELSE maxdig + var1digit
      IN  IF var1digit = 0
          THEN mul_loop(dig, ri - 1, i1 - 1, maxdig, var1digits, var2digits,
                        var2ndigits, res_ndigits)
          ELSE CHOOSE r \in
                 { mul_loop(row, ri - 1, i1 - 1, maxdig1, var1digits,
                            var2digits, var2ndigits, res_ndigits) :
                     row \in
                       { mul_accumulate(
                             IF normalize
                             THEN mul_normalize(dig, res_ndigits - 1, 0)
                             ELSE dig,
                             ri, var2ndigits - 1, var1digit, var2digits) } } :
                 TRUE

\* the operand lengths and result length mul_var computes with:
\* [zero, var1ndigits, var2ndigits, res_ndigits]
mul_lengths(var1ndigits, var2ndigits, res_weight, rscale) ==
    LET res_ndigits == var1ndigits + var2ndigits + 1
        maxdigits0 == res_weight + 1 + (rscale * DEC_DIGITS) + MUL_GUARD_DIGITS
        maxdigits == IF maxdigits0 % 2 = 0 THEN maxdigits0 + 1 ELSE maxdigits0
        cut == res_ndigits - maxdigits
    IN  IF res_ndigits > maxdigits0
        THEN IF maxdigits0 < 3
             THEN [zero |-> TRUE, var1ndigits |-> var1ndigits,
                   var2ndigits |-> var2ndigits, res_ndigits |-> res_ndigits]
             ELSE IF var1ndigits > var2ndigits
             THEN IF var1ndigits - cut < var2ndigits
                  THEN [zero |-> FALSE,
                        var1ndigits |-> (var1ndigits - cut + var2ndigits) \div 2,
                        var2ndigits |-> (var1ndigits - cut + var2ndigits) \div 2,
                        res_ndigits |-> maxdigits]
                  ELSE [zero |-> FALSE, var1ndigits |-> var1ndigits - cut,
                        var2ndigits |-> var2ndigits, res_ndigits |-> maxdigits]
             ELSE IF var2ndigits - cut < var1ndigits
                  THEN [zero |-> FALSE,
                        var1ndigits |-> (var1ndigits + var2ndigits - cut) \div 2,
                        var2ndigits |-> (var1ndigits + var2ndigits - cut) \div 2,
                        res_ndigits |-> maxdigits]
                  ELSE [zero |-> FALSE, var1ndigits |-> var1ndigits,
                        var2ndigits |-> var2ndigits - cut, res_ndigits |-> maxdigits]
        ELSE [zero |-> FALSE, var1ndigits |-> var1ndigits,
              var2ndigits |-> var2ndigits, res_ndigits |-> res_ndigits]

mul_var(var1, var2, rscale) ==
    IF var1.ndigits = 0 \/ var2.ndigits = 0
    THEN NumericVar(0, 0, NUMERIC_POS, rscale, <<>>)
    ELSE
      LET res_sign == IF var1.sign = var2.sign THEN NUMERIC_POS ELSE NUMERIC_NEG
          res_weight == var1.weight + var2.weight + 2
          len == mul_lengths(var1.ndigits, var2.ndigits, res_weight, rscale)
          res_ndigits == len.res_ndigits
          dig0 == [i \in 0 .. res_ndigits - 1 |-> 0]
      IN  IF len.zero
          THEN NumericVar(0, 0, NUMERIC_POS, rscale, <<>>)
          ELSE CHOOSE r \in
                 { strip_var(round_var(
                       NumericVar(res_ndigits, res_weight, res_sign, 0,
                                  [k \in 1 .. res_ndigits |-> fin[k - 1]]),
                       rscale)) :
                     fin \in
                       { mul_normalize(dig, res_ndigits - 1, 0) :
                           dig \in
                             { mul_loop(dig0, res_ndigits - 1,
                                        len.var1ndigits - 1, 0, var1.digits,
                                        var2.digits, len.var2ndigits,
                                        res_ndigits) } } } :
                 TRUE

(***************************************************************************)
(* div_var: division (Knuth 4.3.1 D, and the single-digit fast path)       *)
(***************************************************************************)
\* C's integer division and remainder truncate toward zero
CDiv(a, b) == IF a >= 0 THEN a \div b ELSE -((-a) \div b)
CMod(a, b) == a - b * CDiv(a, b)

\* fast path: for (i = 0; i < res_ndigits; i++)
RECURSIVE div_short(_, _, _, _, _, _)
div_short(dividend, divisor1, res_ndigits, i, carry, res_digits) ==
    IF i >= res_ndigits THEN res_digits
    ELSE
      LET c == carry * NBASE + dividend[i + 1]
      IN  div_short(dividend, divisor1, res_ndigits, i + 1, c % divisor1,
                    Append(res_digits, c \div divisor1))

\* scaling of divisor[] or dividend[] by d, from index i down to low
RECURSIVE div_scale(_, _, _, _, _)
div_scale(arr, d, i, low, carry) ==
    IF i < low THEN arr
    ELSE
      LET c == carry + arr[i] * d
      IN  div_scale([arr EXCEPT ![i] = c % NBASE], d, i - 1, low, c \div NBASE)

\* a while loop that never corrects the estimate
div_adjust_never(qhat, divisor1, divisor2, next2digits, d2) == qhat

\* "Adjust quotient digit if it's too large"
RECURSIVE div_adjust(_, _, _, _, _)
div_adjust(qhat, divisor1, divisor2, next2digits, d2) ==
    IF divisor2 * qhat > (next2digits - qhat * divisor1) * NBASE + d2
    THEN div_adjust(qhat - 1, divisor1, divisor2, next2digits, d2)
    ELSE qhat

\* multiply the divisor by qhat and subtract it from dividend[j .. j+n]
RECURSIVE div_mulsub(_, _, _, _, _, _, _)
div_mulsub(dividend, divisor, qhat, j, i, carry, borrow) ==
    IF i < 0 THEN [dividend |-> dividend, borrow |-> borrow]
    ELSE
      LET c == carry + divisor[i] * qhat
          b == borrow - CMod(c, NBASE) + dividend[j + i]
      IN  IF b < 0
          THEN div_mulsub([dividend EXCEPT ![j + i] = b + NBASE], divisor,
                          qhat, j, i - 1, CDiv(c, NBASE), -1)
          ELSE div_mulsub([dividend EXCEPT ![j + i] = b], divisor,
                          qhat, j, i - 1, CDiv(c, NBASE), 0)

\* add the divisor back into dividend[j .. j+n]
RECURSIVE div_addback(_, _, _, _, _)
div_addback(dividend, divisor, j, i, carry) ==
    IF i < 0 THEN dividend
    ELSE
      LET c == carry + dividend[j + i] + divisor[i]
      IN  IF c >= NBASE
          THEN div_addback([dividend EXCEPT ![j + i] = c - NBASE], divisor, j, i - 1, 1)
          ELSE div_addback([dividend EXCEPT ![j + i] = c], divisor, j, i - 1, 0)

\* the main loop: for (j = 0; j < res_ndigits; j++)
RECURSIVE div_long(_, _, _, _, _, _)
div_long(dividend, divisor, var2ndigits, res_ndigits, j, res_digits) ==
    IF j >= res_ndigits THEN res_digits
    ELSE
      LET divisor1 == divisor[1]
          divisor2 == divisor[2]
          next2digits == dividend[j] * NBASE + dividend[j + 1]
          qhat0 == IF dividend[j] = divisor1 THEN NBASE - 1
                   ELSE next2digits \div divisor1
          qhat == div_adjust(qhat0, divisor1, divisor2, next2digits, dividend[j + 2])
          ms == div_mulsub(dividend, divisor, qhat, j, var2ndigits, 0, 0)
      IN  IF next2digits = 0
          THEN div_long(dividend, divisor, var2ndigits, res_ndigits, j + 1,
                        Append(res_digits, 0))
          ELSE IF qhat > 0
          THEN IF ms.borrow # 0
               THEN div_long(div_addback(ms.dividend, divisor, j, var2ndigits, 0),
                             divisor, var2ndigits, res_ndigits, j + 1,
                             Append(res_digits, qhat - 1))
               ELSE div_long(ms.dividend, divisor, var2ndigits, res_ndigits,
                             j + 1, Append(res_digits, qhat))
          ELSE div_long(dividend, divisor, var2ndigits, res_ndigits, j + 1,
                        Append(res_digits, qhat))

\* the quotient digits res_digits[0 .. res_ndigits-1] before rounding
div_digits(var1, var2, res_ndigits) ==
    LET var1ndigits == var1.ndigits
        var2ndigits == var2.ndigits
        div_ndigits == Max(res_ndigits + var2ndigits, var1ndigits)
        dividend0 == [i \in 0 .. div_ndigits |->
                        IF 1 <= i /\ i <= var1ndigits THEN var1.digits[i] ELSE 0]
        divisor0 == [i \in 0 .. var2ndigits |->
                        IF i = 0 THEN 0 ELSE var2.digits[i]]
        d == NBASE \div (divisor0[1] + 1)
        scale == divisor0[1] < HALF_NBASE
        divisor == IF scale THEN div_scale(divisor0, d, var2ndigits, 1, 0)
                   ELSE divisor0
        dividend == IF scale THEN div_scale(dividend0, d, var1ndigits, 0, 0)
                    ELSE dividend0
    IN  IF var2ndigits = 1
        THEN div_short(dividend0, divisor0[1], res_ndigits, 0, 0, <<>>)
        ELSE div_long(dividend, divisor, var2ndigits, res_ndigits, 0, <<>>)

div_var(var1, var2, result, rscale, round) ==
    IF var2.ndigits = 0 \/ Digit(var2.digits, 0) = 0
    THEN [errcode |-> NUMERIC_ERRCODE_DIVISION_BY_ZERO, result |-> result]
    ELSE IF var1.ndigits = 0
    THEN [errcode |-> NUMERIC_ERRCODE_NO_ERROR,
          result |-> NumericVar(0, 0, NUMERIC_POS, rscale, <<>>)]
    ELSE
      LET res_sign == IF var1.sign = var2.sign THEN NUMERIC_POS ELSE NUMERIC_NEG
          res_weight == var1.weight - var2.weight
          n0 == Max(res_weight + 1 + CDiv(rscale + DEC_DIGITS - 1, DEC_DIGITS), 1)
          res_ndigits == IF round THEN n0 + 1 ELSE n0
          quot == NumericVar(res_ndigits, res_weight, res_sign, 0,
                             div_digits(var1, var2, res_ndigits))
      IN  [errcode |-> NUMERIC_ERRCODE_NO_ERROR,
           result |-> strip_var(IF round THEN round_var(quot, rscale)
                                ELSE trunc_var(quot, rscale))]

(***************************************************************************)
(* select_div_scale, mod_var, set_var_from_var, ceil_var, floor_var        *)
(***************************************************************************)
\* index of the first nonzero digit, or ndigits when there is none
RECURSIVE FirstNonzero(_, _, _)
FirstNonzero(digits, ndigits, i) ==
    IF i < ndigits /\ Digit(digits, i) = 0
    THEN FirstNonzero(digits, ndigits, i + 1)
    ELSE i

select_div_scale(var1, var2) ==
    LET i1 == FirstNonzero(var1.digits, var1.ndigits, 0)
        i2 == FirstNonzero(var2.digits, var2.ndigits, 0)
        weight1 == IF i1 < var1.ndigits THEN var1.weight - i1 ELSE 0
        weight2 == IF i2 < var2.ndigits THEN var2.weight - i2 ELSE 0
        firstdigit1 == IF i1 < var1.ndigits THEN Digit(var1.digits, i1) ELSE 0
        firstdigit2 == IF i2 < var2.ndigits THEN Digit(var2.digits, i2) ELSE 0
        qweight == IF firstdigit1 <= firstdigit2
                   THEN weight1 - weight2 - 1 ELSE weight1 - weight2
        rscale == NUMERIC_MIN_SIG_DIGITS - qweight * DEC_DIGITS
    IN  Min(Max(Max(Max(rscale, var1.dscale), var2.dscale),
                NUMERIC_MIN_DISPLAY_SCALE), NUMERIC_MAX_DISPLAY_SCALE)

\* mod_var multiplying back at display scale 0
mod_var_scale0(var1, var2, result) ==
    LET quot == div_var(var1, var2, numeric_init, 0, FALSE)
        tmp == mul_var(var2, quot.result, 0)
    IN  IF quot.errcode # NUMERIC_ERRCODE_NO_ERROR
        THEN [errcode |-> quot.errcode, result |-> result]
        ELSE [errcode |-> NUMERIC_ERRCODE_NO_ERROR, result |-> sub_var(var1, tmp)]

mod_var(var1, var2, result) ==
    LET quot == div_var(var1, var2, numeric_init, 0, FALSE)
        tmp == mul_var(var2, quot.result, var2.dscale)
    IN  IF quot.errcode # NUMERIC_ERRCODE_NO_ERROR
        THEN [errcode |-> quot.errcode, result |-> result]
        ELSE [errcode |-> NUMERIC_ERRCODE_NO_ERROR, result |-> sub_var(var1, tmp)]

\* a copy of the value (with a fresh buffer and a zeroed spare digit)
set_var_from_var(value) == value

\* ceil_var without the step up from the truncated value
ceil_var_truncating(var) == trunc_var(set_var_from_var(var), 0)

ceil_var(var) ==
    LET tmp == trunc_var(set_var_from_var(var), 0)
    IN  IF var.sign = NUMERIC_POS /\ cmp_var(var, tmp) # 0
        THEN set_var_from_var(add_var(tmp, const_one))
        ELSE set_var_from_var(tmp)

floor_var(var) ==
    LET tmp == trunc_var(set_var_from_var(var), 0)
    IN  IF var.sign = NUMERIC_NEG /\ cmp_var(var, tmp) # 0
        THEN set_var_from_var(sub_var(tmp, const_one))
        ELSE set_var_from_var(tmp)

(***************************************************************************)
(* Strings are sequences of characters; NUL is the terminator read past    *)
(* the end.                                                                *)
(***************************************************************************)
NUL == "\\0"
CharAt(str, cp) == IF cp >= 1 /\ cp <= Len(str) THEN str[cp] ELSE NUL
DecChars == <<"0", "1", "2", "3", "4", "5", "6", "7", "8", "9">>
isdigit(c) == \E d \in 1 .. 10 : DecChars[d] = c
isspace(c) == c \in {" ", "\t", "\n", "\r"}
\* c - '0'
DecValue(c) == (CHOOSE d \in 1 .. 10 : DecChars[d] = c) - 1
\* d + '0'
DecChar(d) == DecChars[d + 1]
\* tolower, as pg_strncasecmp applies it to the letters of "NaN"
pg_tolower(c) == IF c = "N" THEN "n" ELSE IF c = "A" THEN "a" ELSE c

RECURSIVE SkipSpaces(_, _)
SkipSpaces(str, cp) ==
    IF CharAt(str, cp) # NUL /\ isspace(CharAt(str, cp))
    THEN SkipSpaces(str, cp + 1)
    ELSE cp

\* "Should be nothing left but spaces"
RECURSIVE OnlySpaces(_, _)
OnlySpaces(str, cp) ==
    IF CharAt(str, cp) = NUL THEN TRUE
    ELSE IF ~isspace(CharAt(str, cp)) THEN FALSE
    ELSE OnlySpaces(str, cp + 1)

\* pg_strncasecmp(cp, "NaN", 3) == 0
IsNaNPrefix(str, cp) ==
    /\ pg_tolower(CharAt(str, cp)) = "n"
    /\ pg_tolower(CharAt(str, cp + 1)) = "a"
    /\ pg_tolower(CharAt(str, cp + 2)) = "n"

(***************************************************************************)
(* set_var_from_str: parse a string into a variable                        *)
(***************************************************************************)
\* the loop collecting decimal digits: stops at the first character that is
\* neither a digit nor a (first) decimal point
RECURSIVE ScanDigits(_, _, _, _, _, _)
ScanDigits(str, cp, have_dp, decdigits, dweight, dscale) ==
    LET c == CharAt(str, cp)
    IN  IF c # NUL /\ isdigit(c)
        THEN ScanDigits(str, cp + 1, have_dp, Append(decdigits, DecValue(c)),
                        IF have_dp THEN dweight ELSE dweight + 1,
                        IF have_dp THEN dscale + 1 ELSE dscale)
        ELSE IF c = "."
        THEN IF have_dp
             THEN [error |-> TRUE, cp |-> cp, decdigits |-> decdigits,
                   dweight |-> dweight, dscale |-> dscale]
             ELSE ScanDigits(str, cp + 1, TRUE, decdigits, dweight, dscale)
        ELSE [error |-> FALSE, cp |-> cp, decdigits |-> decdigits,
              dweight |-> dweight, dscale |-> dscale]

\* the digits strtol consumes
RECURSIVE strtol_digits(_, _, _)
strtol_digits(str, cp, val) ==
    IF isdigit(CharAt(str, cp))
    THEN strtol_digits(str, cp + 1, val * 10 + DecValue(CharAt(str, cp)))
    ELSE [val |-> val, endptr |-> cp]

\* strtol(cp, &endptr, 10): leading white space, optional sign, digits;
\* endptr = cp when no digits were found
strtol(str, cp) ==
    LET p == SkipSpaces(str, cp)
        neg == CharAt(str, p) = "-"
        q == IF CharAt(str, p) \in {"+", "-"} THEN p + 1 ELSE p
        r == strtol_digits(str, q, 0)
    IN  IF r.endptr = q THEN [val |-> 0, endptr |-> cp]
        ELSE [val |-> IF neg THEN -r.val ELSE r.val, endptr |-> r.endptr]

\* "convert pure-decimal representation to base NBASE": padded is decdigits[]
\* with its DEC_DIGITS leading and DEC_DIGITS - 1 trailing zeroes
RECURSIVE PackDigits(_, _, _, _)
PackDigits(padded, i, ndigits, digits) ==
    IF ndigits <= 0 THEN digits
    ELSE PackDigits(padded, i + DEC_DIGITS, ndigits - 1,
                    Append(digits,
                           ((Digit(padded, i) * 10 + Digit(padded, i + 1)) * 10
                             + Digit(padded, i + 2)) * 10 + Digit(padded, i + 3)))

set_var_from_str(str, cp0) ==
    LET sign == IF CharAt(str, cp0) = "-" THEN NUMERIC_NEG ELSE NUMERIC_POS
        cp1 == IF CharAt(str, cp0) \in {"+", "-"} THEN cp0 + 1 ELSE cp0
        have_dp == CharAt(str, cp1) = "."
        cp2 == IF have_dp THEN cp1 + 1 ELSE cp1
        scan == ScanDigits(str, cp2, have_dp, <<>>, -1, 0)
        ddigits == Len(scan.decdigits)
        has_exp == CharAt(str, scan.cp) \in {"e", "E"}
        ex == strtol(str, scan.cp + 1)
        cp3 == IF has_exp THEN ex.endptr ELSE scan.cp
        dweight == IF has_exp THEN scan.dweight + ex.val ELSE scan.dweight
        dscale == IF has_exp THEN Max(scan.dscale - ex.val, 0) ELSE scan.dscale
        weight == IF dweight >= 0
                  THEN (dweight + 1 + DEC_DIGITS - 1) \div DEC_DIGITS - 1
                  ELSE -((-dweight - 1) \div DEC_DIGITS + 1)
        offset == (weight + 1) * DEC_DIGITS - (dweight + 1)
        ndigits == (ddigits + offset + DEC_DIGITS - 1) \div DEC_DIGITS
        padded == <<0, 0, 0, 0>> \o scan.decdigits \o <<0, 0, 0>>
        digits == PackDigits(padded, DEC_DIGITS - offset, ndigits, <<>>)
        failed == [errcode |-> NUMERIC_ERRCODE_INVALID_ARGUMENT,
                   dest |-> numeric_init, cp |-> cp0]
    IN  IF ~isdigit(CharAt(str, cp2)) THEN failed
        ELSE IF scan.error THEN failed
        ELSE IF has_exp /\ ex.endptr = scan.cp + 1 THEN failed
        ELSE IF has_exp /\ (ex.val > NUMERIC_MAX_PRECISION
                            \/ ex.val < -NUMERIC_MAX_PRECISION) THEN failed
        ELSE [errcode |-> NUMERIC_ERRCODE_NO_ERROR,
              dest |-> strip_var(NumericVar(ndigits, weight, sign, dscale, digits)),
              cp |-> cp3]

(***************************************************************************)
(* get_str_from_var: the decimal text of a variable at a display scale     *)
(***************************************************************************)
FourChars(dig) ==
    <<DecChar(dig \div 1000), DecChar((dig % 1000) \div 100),
      DecChar((dig % 100) \div 10), DecChar(dig % 10)>>

\* "In the first digit, suppress extra leading decimal zeroes"
FirstChars(dig) ==
    IF dig >= 1000 THEN FourChars(dig)
    ELSE IF dig >= 100 THEN SubSeq(FourChars(dig), 2, 4)
    ELSE IF dig >= 10 THEN SubSeq(FourChars(dig), 3, 4)
    ELSE SubSeq(FourChars(dig), 4, 4)

\* "Output all digits before the decimal point": for (d = 0; d <= weight; d++)
RECURSIVE IntegerChars(_, _)
IntegerChars(var, d) ==
    IF d > var.weight THEN <<>>
    ELSE LET dig == IF d < var.ndigits THEN Digit(var.digits, d) ELSE 0
         IN  (IF d > 0 THEN FourChars(dig) ELSE FirstChars(dig))
             \o IntegerChars(var, d + 1)

\* for (i = 0; i < dscale; d++, i += DEC_DIGITS)
RECURSIVE FractionChars(_, _, _, _)
FractionChars(var, d, i, dscale) ==
    IF i >= dscale THEN <<>>
    ELSE LET dig == IF d >= 0 /\ d < var.ndigits THEN Digit(var.digits, d) ELSE 0
         IN  FourChars(dig) \o FractionChars(var, d + 1, i + DEC_DIGITS, dscale)

get_str_from_var(var0, dscale0) ==
    LET dscale == IF dscale0 < 0 THEN 0 ELSE dscale0
        var == round_var(var0, dscale)
        dash == IF var.sign = NUMERIC_NEG THEN <<"-">> ELSE <<>>
        int == IF var.weight < 0 THEN <<"0">> ELSE IntegerChars(var, 0)
        d == var.weight + 1
        frac == IF dscale > 0
                THEN <<".">> \o SubSeq(FractionChars(var, d, 0, dscale), 1, dscale)
                ELSE <<>>
    IN  dash \o int \o frac

(***************************************************************************)
(* Reference arithmetic.  The value of a decimal is                        *)
(*   sign * SUM digits[i] * NBASE^(weight - i).                            *)
(* Natural numbers of any size are sequences of base-NBASE limbs, least    *)
(* significant first, without high zero limbs (so equal numbers are equal  *)
(* sequences).  Scaled(v, F) is |v| * NBASE^F, for F at least the number   *)
(* of fractional limbs of v.                                               *)
(***************************************************************************)
RECURSIVE BigNorm(_)
BigNorm(a) ==
    IF Len(a) > 0 /\ a[Len(a)] = 0 THEN BigNorm(SubSeq(a, 1, Len(a) - 1)) ELSE a

BigLimb(a, i) == IF i <= Len(a) THEN a[i] ELSE 0

RECURSIVE BigAddFrom(_, _, _, _)
BigAddFrom(a, b, i, carry) ==
    IF i > Len(a) /\ i > Len(b)
    THEN (IF carry = 0 THEN <<>> ELSE <<carry>>)
    ELSE LET t == BigLimb(a, i) + BigLimb(b, i) + carry
         IN  <<t % NBASE>> \o BigAddFrom(a, b, i + 1, t \div NBASE)

BigAdd(a, b) == BigNorm(BigAddFrom(a, b, 1, 0))

\* a - b for a >= b
RECURSIVE BigSubFrom(_, _, _, _)
BigSubFrom(a, b, i, borrow) ==
    IF i > Len(a) THEN <<>>
    ELSE LET t == BigLimb(a, i) - BigLimb(b, i) - borrow
         IN  IF t < 0 THEN <<t + NBASE>> \o BigSubFrom(a, b, i + 1, 1)
             ELSE <<t>> \o BigSubFrom(a, b, i + 1, 0)

BigSub(a, b) == BigNorm(BigSubFrom(a, b, 1, 0))

\* comparison from the most significant limb down: -1, 0 or 1
RECURSIVE BigCmpFrom(_, _, _)
BigCmpFrom(a, b, i) ==
    IF i = 0 THEN 0
    ELSE IF a[i] < b[i] THEN -1
    ELSE IF a[i] > b[i] THEN 1
    ELSE BigCmpFrom(a, b, i - 1)

BigCmp(a, b) ==
    IF Len(a) < Len(b) THEN -1
    ELSE IF Len(a) > Len(b) THEN 1
    ELSE BigCmpFrom(a, b, Len(a))

BigLe(a, b) == BigCmp(a, b) <= 0
BigLt(a, b) == BigCmp(a, b) < 0

\* a * m for a small m (0 <= m <= NBASE)
RECURSIVE BigMulSmallFrom(_, _, _, _)
BigMulSmallFrom(a, m, i, carry) ==
    IF i > Len(a) THEN (IF carry = 0 THEN <<>> ELSE <<carry>>)
    ELSE LET t == a[i] * m + carry
         IN  <<t % NBASE>> \o BigMulSmallFrom(a, m, i + 1, t \div NBASE)

BigMulSmall(a, m) == BigNorm(BigMulSmallFrom(a, m, 1, 0))

\* a * NBASE^n
BigShift(a, n) == IF a = <<>> THEN <<>> ELSE [i \in 1 .. n |-> 0] \o a

RECURSIVE BigMulFrom(_, _, _)
BigMulFrom(a, b, i) ==
    IF i > Len(b) THEN <<>>
    ELSE BigAdd(BigShift(BigMulSmall(a, b[i]), i - 1), BigMulFrom(a, b, i + 1))

BigMul(a, b) == BigMulFrom(a, b, 1)

RECURSIVE Reverse(_)
Reverse(q) == IF q = <<>> THEN <<>> ELSE Append(Reverse(Tail(q)), Head(q))

\* the number of base-NBASE digits of v after the decimal point
FracLimbs(v) == Max(0, v.ndigits - v.weight - 1)

Scaled(v, F) ==
    BigNorm([i \in 1 .. (F - (v.ndigits - v.weight - 1)) |-> 0] \o Reverse(v.digits))

\* 10^e as a small number, 0 <= e < DEC_DIGITS
SmallPow10(e) == <<1, 10, 100, 1000>>[e + 1]

\* signed numbers: [neg |-> BOOLEAN, mag |-> natural]; zero is not negative
Signed(neg, mag) == [neg |-> neg /\ mag # <<>>, mag |-> mag]

SignedScaled(v, F) == Signed(v.sign = NUMERIC_NEG, Scaled(v, F))

SignedAdd(x, y) ==
    IF x.neg = y.neg THEN Signed(x.neg, BigAdd(x.mag, y.mag))
    ELSE IF BigLe(y.mag, x.mag) THEN Signed(x.neg, BigSub(x.mag, y.mag))
    ELSE Signed(y.neg, BigSub(y.mag, x.mag))

SignedNeg(x) == Signed(~x.neg, x.mag)

SignedMul(x, y) == Signed(x.neg # y.neg, BigMul(x.mag, y.mag))

\* two decimals denote the same number
SameValue(x, y) ==
    LET F == Max(FracLimbs(x), FracLimbs(y))
    IN  SignedScaled(x, F) = SignedScaled(y, F)

(***************************************************************************)
(* numericvar_to_int64, numericvar_to_int32, numeric_to_int32.             *)
(* An int64_t is a signed number [neg, mag] with mag in base-NBASE limbs;  *)
(* an int32_t is an integer.  Int64Max is 2^63 - 1.                        *)
(***************************************************************************)
Int64Max == <<5807, 5477, 368, 3372, 922>>

\* the for loop: val = val * NBASE + digits[i] for i = 1 .. weight
RECURSIVE int64_accumulate(_, _, _, _, _)
int64_accumulate(digits, ndigits, weight, i, val) ==
    IF i > weight THEN val
    ELSE int64_accumulate(digits, ndigits, weight, i + 1,
             BigAdd(BigMulSmall(val, NBASE),
                    IF i < ndigits THEN BigNorm(<<Digit(digits, i)>>) ELSE <<>>))

\* the calls on which val never exceeds INT64_MAX inside the loop, so that
\* no multiplication overflows
numericvar_to_int64Covered(var0) ==
    LET var == strip_var(round_var(var0, 0))
    IN  \/ var.ndigits = 0
        \/ BigLe(Scaled(var, 0), Int64Max)

\* returns [ok, val]
numericvar_to_int64(var0) ==
    LET var == strip_var(round_var(var0, 0))
        val == int64_accumulate(var.digits, var.ndigits, var.weight, 1,
                                BigNorm(<<Digit(var.digits, 0)>>))
    IN  IF var.ndigits = 0 THEN [ok |-> TRUE, val |-> Signed(FALSE, <<>>)]
        ELSE [ok |-> TRUE, val |-> Signed(var.sign = NUMERIC_NEG, val)]

\* a / m and a % m for a natural number a and 0 < m <= 2^16, from the most
\* significant limb down: [quot, rem]
RECURSIVE BigDivSmallFrom(_, _, _, _)
BigDivSmallFrom(a, m, i, rem) ==
    IF i = 0 THEN [quot |-> <<>>, rem |-> rem]
    ELSE LET t == rem * NBASE + a[i]
             rest == BigDivSmallFrom(a, m, i - 1, t % m)
         IN  [quot |-> Append(rest.quot, t \div m), rem |-> rest.rem]

BigDivSmall(a, m) ==
    LET r == BigDivSmallFrom(a, m, Len(a), 0)
    IN  [quot |-> BigNorm(r.quot), rem |-> r.rem]

\* (int32_t) val: the low 32 bits of the two's complement of val, as a
\* signed 32-bit integer
NarrowToInt32(val) ==
    LET low == BigDivSmall(val.mag, 65536)
        high == BigDivSmall(low.quot, 65536)
        lo == IF ~val.neg THEN low.rem
              ELSE IF low.rem = 0 THEN 0 ELSE 65536 - low.rem
        hi == IF ~val.neg THEN high.rem
              ELSE IF low.rem = 0 THEN (65536 - high.rem) % 65536
              ELSE 65535 - high.rem
    IN  IF hi >= 32768 THEN (hi - 65536) * 65536 + lo ELSE hi * 65536 + lo

\* result is the address the caller passed, as an int64_t; out is the
\* caller's int32_t before the call.  Returns [errcode, out].
numericvar_to_int32(var, result, out) ==
    LET r == numericvar_to_int64(var)
    IN  IF ~r.ok
        THEN [errcode |-> NUMERIC_ERRCODE_NUMERIC_VALUE_OUT_OF_RANGE,
              out |-> out]
        ELSE IF result # r.val
        THEN [errcode |-> NUMERIC_ERRCODE_NUMERIC_VALUE_OUT_OF_RANGE,
              out |-> NarrowToInt32(r.val)]
        ELSE [errcode |-> NUMERIC_ERRCODE_NO_ERROR,
              out |-> NarrowToInt32(r.val)]

numeric_to_int32Covered(num) ==
    NUMERIC_IS_NAN(num) \/ numericvar_to_int64Covered(num)

numeric_to_int32(num, result, out) ==
    IF NUMERIC_IS_NAN(num)
    THEN [errcode |-> NUMERIC_ERRCODE_INVALID_ARGUMENT, out |-> out]
    ELSE numericvar_to_int32(set_var_from_var(num), result, out)

(***************************************************************************)
(* int64_to_numericvar, power_var_int, get_str_from_var_sci                *)
(***************************************************************************)
\* the base-NBASE digits of uval, most significant first
RECURSIVE int64_digits(_, _)
int64_digits(uval, digits) ==
    LET newuval == uval \div NBASE
        ptr == <<uval - newuval * NBASE>> \o digits
    IN  IF newuval # 0 THEN int64_digits(newuval, ptr) ELSE ptr

\* the same digits, least significant first
RECURSIVE int64_digits_le(_)
int64_digits_le(uval) ==
    IF uval = 0 THEN <<>>
    ELSE <<uval % NBASE>> \o int64_digits_le(uval \div NBASE)

\* for the values of val that an int holds
int64_to_numericvar(val) ==
    LET sign == IF val < 0 THEN NUMERIC_NEG ELSE NUMERIC_POS
        digits == int64_digits(IF val < 0 THEN -val ELSE val, <<>>)
    IN  IF val = 0 THEN NumericVar(0, 0, sign, 0, <<>>)
        ELSE NumericVar(Len(digits), Len(digits) - 1, sign, 0, digits)

(***************************************************************************)
(* The double arithmetic of div_var_fast.  A double that holds an integer  *)
(* is a signed number [neg, mag] whose magnitude is a sequence of limbs of *)
(* 14 bits, least significant first, without a leading zero limb; the      *)
(* reciprocal of the divisor is [mant, exp] for mant * 2^-exp.  Every      *)
(* operation rounds to DBL_MANT_DIG significant bits, ties to even.        *)
(***************************************************************************)
DBL_MANT_DIG == 53

LIMB == 2 ^ 14

BinLimb(a, i) == IF 1 <= i /\ i <= Len(a) THEN a[i] ELSE 0

\* drop the leading zero limbs
BinNorm(a) ==
    LET nz == { i \in 1 .. Len(a) : a[i] # 0 }
    IN  IF nz = {} THEN <<>>
        ELSE SubSeq(a, 1, CHOOSE m \in nz : \A k \in nz : k <= m)

\* the limbs of a sequence of columns, each of them an integer
RECURSIVE BinCarryFrom(_, _, _)
BinCarryFrom(c, i, carry) ==
    IF i > Len(c) /\ carry = 0 THEN <<>>
    ELSE <<(BinLimb(c, i) + carry) % LIMB>>
           \o BinCarryFrom(c, i + 1, (BinLimb(c, i) + carry) \div LIMB)

BinCarry(c) == BinNorm(BinCarryFrom(c \o <<>>, 1, 0))

\* a * m for 0 <= m <= NBASE
BinMulSmall(a, m) == BinCarry([i \in 1 .. Len(a) |-> a[i] * m])

BinAdd(a, b) ==
    BinCarry([i \in 1 .. Max(Len(a), Len(b)) |-> BinLimb(a, i) + BinLimb(b, i)])

\* a - b for a >= b
BinSub(a, b) == BinCarry([i \in 1 .. Len(a) |-> a[i] - BinLimb(b, i)])

\* -1, 0 or 1
BinCmp(a, b) ==
    IF Len(a) < Len(b) THEN -1
    ELSE IF Len(a) > Len(b) THEN 1
    ELSE LET diff == { i \in 1 .. Len(a) : a[i] # b[i] }
         IN  IF diff = {} THEN 0
             ELSE LET m == CHOOSE i \in diff : \A k \in diff : k <= i
                  IN  IF a[m] < b[m] THEN -1 ELSE 1

\* a * mant for a mantissa of at most four limbs
BinMulMant(a, mant) ==
    BinCarry([k \in 1 .. Len(a) + 4 |->
                BinLimb(a, k) * BinLimb(mant, 1)
                  + BinLimb(a, k - 1) * BinLimb(mant, 2)
                  + BinLimb(a, k - 2) * BinLimb(mant, 3)
                  + BinLimb(a, k - 3) * BinLimb(mant, 4)])

\* a * 2^n
BinShiftLeft(a, n) ==
    LET q == n \div 14
        s == n % 14
    IN  BinNorm([i \in 1 .. Len(a) + q + 1 |->
                   ((BinLimb(a, i - q) * (2 ^ s)) % LIMB)
                     + (BinLimb(a, i - q - 1) \div (2 ^ (14 - s)))])

\* a / 2^n, rounded down
BinShiftRight(a, n) ==
    LET q == n \div 14
        s == n % 14
    IN  BinNorm([i \in 1 .. Max(Len(a) - q, 0) |->
                   (BinLimb(a, i + q) \div (2 ^ s))
                     + (BinLimb(a, i + q + 1) % (2 ^ s)) * (2 ^ (14 - s))])

\* a % 2^n
BinLowBits(a, n) ==
    LET q == n \div 14
        s == n % 14
    IN  BinNorm([i \in 1 .. q + 1 |->
                   IF i <= q THEN BinLimb(a, i) ELSE BinLimb(a, i) % (2 ^ s)])

\* the least b with a < 2^b
BitLength(a) ==
    IF a = <<>> THEN 0
    ELSE 14 * (Len(a) - 1)
           + (CHOOSE b \in 1 .. 14 : 2 ^ (b - 1) <= a[Len(a)] /\ a[Len(a)] < 2 ^ b)

\* one step of the long division by d, whose leading limb has its top bit
\* set: the quotient limb of t / d for t < d * LIMB, estimated from the two
\* leading limbs of t and corrected
BinDivLimb(t, d) ==
    LET n == Len(d)
        qhat == Min(LIMB - 1, (BinLimb(t, n + 1) * LIMB + BinLimb(t, n)) \div d[n])
    IN  CHOOSE q \in Max(qhat - 2, 0) .. qhat :
          /\ BinCmp(BinMulSmall(d, q), t) <= 0
          /\ BinCmp(t, BinMulSmall(d, q + 1)) < 0

\* the long division from the most significant limb down: [quot, rem]
RECURSIVE BinDivModFrom(_, _, _, _, _)
BinDivModFrom(a, d, i, rem, quot) ==
    IF i = 0 THEN [quot |-> BinNorm(quot), rem |-> rem]
    ELSE CHOOSE r \in
           { CHOOSE s \in
               { BinDivModFrom(a, d, i - 1, BinSub(t, BinMulSmall(d, q)),
                               <<q>> \o quot) :
                   q \in { BinDivLimb(t, d) } } : TRUE :
               t \in { BinNorm(<<a[i]>> \o rem) } } : TRUE

\* a / d and a % d for d > 0 whose leading limb has its top bit set
BinDivMod(a, d) ==
    BinDivModFrom(a, d, Len(a) - Len(d) + 1,
                  SubSeq(a, Len(a) - Len(d) + 2, Len(a)), <<>>)

\* a natural number rounded to DBL_MANT_DIG significant bits:
\* [mant, shift] for mant * 2^shift
RoundBits(a) ==
    CHOOSE rounded \in
      { IF shift <= 0 THEN [mant |-> a, shift |-> 0]
        ELSE LET q == BinShiftRight(a, shift)
                 c == BinCmp(BinLowBits(a, shift), BinShiftLeft(<<1>>, shift - 1))
                 up == c > 0 \/ (c = 0 /\ q[1] % 2 = 1)
             IN  [mant |-> IF up THEN BinAdd(q, <<1>>) ELSE q, shift |-> shift] :
          shift \in { BitLength(a) - DBL_MANT_DIG } } : TRUE

\* the double nearest to the integer x
RoundedInteger(x) ==
    IF BitLength(x.mag) <= DBL_MANT_DIG THEN x
    ELSE CHOOSE v \in
           { Signed(x.neg, BinShiftLeft(r.mant, r.shift)) :
               r \in { RoundBits(x.mag) } } : TRUE

\* (double) n for an int n
IntToDouble(n) ==
    Signed(n < 0, BinNorm(<<Abs(n) % LIMB, (Abs(n) \div LIMB) % LIMB,
                            Abs(n) \div (LIMB * LIMB)>>))

\* f *= NBASE
TimesNBASE(f) ==
    CHOOSE v \in
      { RoundedInteger(x) : x \in { Signed(f.neg, BinMulSmall(f.mag, NBASE)) } } :
      TRUE

\* the exact sum of two doubles that hold integers
BinSignedAdd(x, y) ==
    IF x.neg = y.neg THEN Signed(x.neg, BinAdd(x.mag, y.mag))
    ELSE IF BinCmp(y.mag, x.mag) <= 0 THEN Signed(x.neg, BinSub(x.mag, y.mag))
    ELSE Signed(y.neg, BinSub(y.mag, x.mag))

\* f += (double) digit
PlusDigit(f, digit) ==
    CHOOSE v \in
      { RoundedInteger(x) : x \in { BinSignedAdd(f, IntToDouble(digit)) } } : TRUE

\* f *= NBASE; f += (double) digit
NextDigit(f, digit) ==
    CHOOSE v \in { PlusDigit(g, digit) : g \in { TimesNBASE(f) } } : TRUE

\* the double made of four digits, most significant first; a digit that
\* is not there adds nothing
FourDigits(d0, d1, d2, d3) ==
    CHOOSE v \in
      { NextDigit(f2, d3) :
          f2 \in { NextDigit(f1, d2) : f1 \in { NextDigit(IntToDouble(d0), d1) } } } :
      TRUE

\* 1.0 / fdivisor for fdivisor > 0: the quotient 2^exp / fdivisor has
\* DBL_MANT_DIG bits, and both sides of the division are scaled so that the
\* leading limb of the divisor has its top bit set
Reciprocal(fdivisor) ==
    LET exp == BitLength(fdivisor.mag) + DBL_MANT_DIG - 1
        scale == 14 * Len(fdivisor.mag) - BitLength(fdivisor.mag)
    IN  CHOOSE v \in
          { CHOOSE w \in
              { LET c == BinCmp(BinMulSmall(qr.rem, 2), d)
                    up == c > 0 \/ (c = 0 /\ qr.quot[1] % 2 = 1)
                IN  [mant |-> IF up THEN BinAdd(qr.quot, <<1>>) ELSE qr.quot,
                     exp |-> exp] :
                  qr \in { BinDivMod(BinShiftLeft(<<1>>, exp + scale), d) } } :
              TRUE :
              d \in { BinShiftLeft(fdivisor.mag, scale) } } : TRUE

\* |fquotient| rounded towards zero, for fquotient = fdividend * fdivisorinverse
QuotientMagnitude(fdividend, fdivisorinverse) ==
    CHOOSE m \in
      { IF fdivisorinverse.exp - p.shift >= 0
        THEN BinShiftRight(p.mant, fdivisorinverse.exp - p.shift)
        ELSE BinShiftLeft(p.mant, p.shift - fdivisorinverse.exp) :
          p \in { RoundBits(prod) :
                    prod \in { BinMulMant(fdividend.mag, fdivisorinverse.mant) } } } :
      TRUE

\* (int) of a magnitude below 2^31
BinToInt(a) == BinLimb(a, 1) + BinLimb(a, 2) * LIMB + BinLimb(a, 3) * LIMB * LIMB

\* [fits, qdigit]: fquotient converts to an int, and
\* (fquotient >= 0.0) ? ((int) fquotient) : (((int) fquotient) - 1)
qdigit_of(fdividend, fdivisorinverse) ==
    CHOOSE r \in
      { IF BitLength(m) > 31 THEN [fits |-> FALSE, qdigit |-> 0]
        ELSE [fits |-> TRUE,
              qdigit |-> IF fdividend.neg THEN -BinToInt(m) - 1 ELSE BinToInt(m)] :
          m \in { QuotientMagnitude(fdividend, fdivisorinverse) } } : TRUE

(***************************************************************************)
(* div_var_fast.  div[] is a function on 0 .. div_ndigits.  Where the C    *)
(* code would overflow an int, or convert a double beyond the range of int *)
(* to int, the run is not defined and the model does not cover the call.   *)
(***************************************************************************)
\* the carry out of newdig in a carry propagation pass
div_fast_carry(newdig) ==
    IF newdig < 0 THEN -((-newdig - 1) \div NBASE) - 1
    ELSE IF newdig >= NBASE THEN newdig \div NBASE
    ELSE 0

\* one step of a carry propagation pass, on [div, carry]
div_fast_propagate_step(p, i) ==
    CHOOSE r \in
      { [div |-> [p.div EXCEPT ![i] = (p.div[i] + p.carry) - c * NBASE],
         carry |-> c] :
          c \in { div_fast_carry(p.div[i] + p.carry) } } : TRUE

\* the steps i = hi, hi - 1, ..., lo of a carry propagation pass, split in
\* two halves that run one after the other
RECURSIVE div_fast_propagate_range(_, _, _)
div_fast_propagate_range(p, hi, lo) ==
    IF hi < lo THEN p
    ELSE IF hi = lo THEN div_fast_propagate_step(p, hi)
    ELSE CHOOSE r \in
           { div_fast_propagate_range(upper, (hi + lo) \div 2, lo) :
               upper \in { div_fast_propagate_range(p, hi, (hi + lo) \div 2 + 1) } } :
           TRUE

\* for (i = ...; i > qi; i--) of a carry propagation pass: [div, carry]
div_fast_propagate(div, i, qi, carry) ==
    div_fast_propagate_range([div |-> div, carry |-> carry], i, qi + 1)

\* "Approximate the current dividend value"
div_fast_fdividend(div, qi, div_ndigits) ==
    FourDigits(div[qi],
               IF qi + 1 <= div_ndigits THEN div[qi + 1] ELSE 0,
               IF qi + 2 <= div_ndigits THEN div[qi + 2] ELSE 0,
               IF qi + 3 <= div_ndigits THEN div[qi + 3] ELSE 0)

\* the subtraction div[qi + i] -= qdigit * var2digits[i] stays within int
div_fast_subtract_fits(div, qi, qdigit, var2digits, istop) ==
    /\ Abs(qdigit) <= INT_MAX \div NBASE
    /\ \A i \in 0 .. istop - 1 :
          Abs(div[qi + i]) <= INT_MAX - Abs(qdigit) * Digit(var2digits, i)

\* "Subtract off the appropriate multiple of the divisor":
\* for (i = 0; i < istop; i++) div[qi + i] -= qdigit * var2digits[i]
RECURSIVE div_fast_subtract(_, _, _, _, _, _)
div_fast_subtract(div, qi, i, qdigit, var2digits, istop) ==
    IF i >= istop THEN div
    ELSE CHOOSE r \in
           { div_fast_subtract(d, qi, i + 1, qdigit, var2digits, istop) :
               d \in { [div EXCEPT ![qi + i] =
                                     div[qi + i] - qdigit * Digit(var2digits, i)] } } :
           TRUE

\* div[qi + 1] += div[qi] * NBASE stays within int
div_fast_fold_fits(div, qi) ==
    /\ Abs(div[qi]) <= INT_MAX \div NBASE
    /\ Abs(div[qi + 1]) <= INT_MAX - Abs(div[qi]) * NBASE

\* div[qi + 1] += div[qi] * NBASE; div[qi] = qdigit
div_fast_fold(div, qi, qdigit) ==
    [div EXCEPT ![qi + 1] = div[qi + 1] + div[qi] * NBASE, ![qi] = qdigit]

\* the rest of an iteration once qdigit and maxdiv are settled:
\* [defined, div, maxdiv]
div_fast_finish(div, qi, qdigit, maxdiv, var2digits, var2ndigits, div_ndigits) ==
    LET istop == Min(var2ndigits, div_ndigits - qi + 1)
    IN  IF qdigit # 0 /\ ~div_fast_subtract_fits(div, qi, qdigit, var2digits, istop)
        THEN [defined |-> FALSE, div |-> div, maxdiv |-> maxdiv]
        ELSE CHOOSE r \in
               { IF div_fast_fold_fits(d, qi)
                 THEN [defined |-> TRUE, div |-> div_fast_fold(d, qi, qdigit),
                       maxdiv |-> maxdiv]
                 ELSE [defined |-> FALSE, div |-> d, maxdiv |-> maxdiv] :
                   d \in { IF qdigit # 0
                           THEN div_fast_subtract(div, qi, 0, qdigit, var2digits, istop)
                           ELSE div } } : TRUE

\* "Do we need to normalize now?" and the recomputed quotient digit
div_fast_renormalize(div, qi, fdivisorinverse, var2digits, var2ndigits, div_ndigits) ==
    CHOOSE r \in
      { CHOOSE s \in
          { IF ~q.fits \/ Abs(q.qdigit) > INT_MAX \div NBASE
            THEN [defined |-> FALSE, div |-> d, maxdiv |-> 1]
            ELSE div_fast_finish(d, qi, q.qdigit,
                     Max(Abs(d[qi]) \div (NBASE - 1), 1) + Abs(q.qdigit),
                     var2digits, var2ndigits, div_ndigits) :
              q \in { qdigit_of(div_fast_fdividend(d, qi, div_ndigits),
                                fdivisorinverse) } } : TRUE :
          d \in { [p.div EXCEPT ![qi] = p.div[qi] + p.carry] :
                    p \in { div_fast_propagate(div, div_ndigits, qi, 0) } } } :
      TRUE

\* one iteration of the outer loop: [defined, div, maxdiv]
div_fast_step(div, qi, maxdiv, fdivisorinverse, var2digits, var2ndigits, div_ndigits) ==
    CHOOSE r \in
      { IF ~q.fits \/ Abs(q.qdigit) > INT_MAX \div NBASE
        THEN [defined |-> FALSE, div |-> div, maxdiv |-> maxdiv]
        ELSE IF q.qdigit = 0
        THEN div_fast_finish(div, qi, 0, maxdiv, var2digits, var2ndigits,
                             div_ndigits)
        ELSE IF maxdiv + Abs(q.qdigit) > INT_MAX \div (NBASE - 1)
        THEN div_fast_renormalize(div, qi, fdivisorinverse, var2digits,
                                  var2ndigits, div_ndigits)
        ELSE div_fast_finish(div, qi, q.qdigit, maxdiv + Abs(q.qdigit),
                             var2digits, var2ndigits, div_ndigits) :
          q \in { qdigit_of(div_fast_fdividend(div, qi, div_ndigits),
                            fdivisorinverse) } } : TRUE

\* the iterations qi = lo .. hi of the outer loop, split in two halves that
\* run one after the other: [defined, div, maxdiv]
RECURSIVE div_fast_range(_, _, _, _, _, _, _)
div_fast_range(s, lo, hi, fdivisorinverse, var2digits, var2ndigits, div_ndigits) ==
    IF hi < lo \/ ~s.defined THEN s
    ELSE IF hi = lo
    THEN div_fast_step(s.div, lo, s.maxdiv, fdivisorinverse, var2digits,
                       var2ndigits, div_ndigits)
    ELSE CHOOSE r \in
           { div_fast_range(first, (lo + hi) \div 2 + 1, hi, fdivisorinverse,
                            var2digits, var2ndigits, div_ndigits) :
               first \in { div_fast_range(s, lo, (lo + hi) \div 2,
                                          fdivisorinverse, var2digits,
                                          var2ndigits, div_ndigits) } } : TRUE

\* for (qi = 0; qi < div_ndigits; qi++): [defined, div, maxdiv]
div_fast_loop(div, qi, maxdiv, fdivisorinverse, var2digits, var2ndigits, div_ndigits) ==
    div_fast_range([defined |-> TRUE, div |-> div, maxdiv |-> maxdiv], qi,
                   div_ndigits - 1, fdivisorinverse, var2digits, var2ndigits,
                   div_ndigits)

\* "Approximate and store the last quotient digit", then the final carry
\* propagation pass: [defined, res_digits]
div_fast_digits(div, fdivisorinverse, div_ndigits) ==
    CHOOSE r \in
      { IF ~q.fits THEN [defined |-> FALSE, res_digits |-> <<>>]
        ELSE CHOOSE s \in
               { [defined |-> TRUE,
                  res_digits |-> [k \in 1 .. div_ndigits + 1 |-> p.div[k - 1]]] :
                   p \in { div_fast_propagate(
                               [div EXCEPT ![div_ndigits] = q.qdigit],
                               div_ndigits, -1, 0) } } : TRUE :
          q \in { qdigit_of(FourDigits(div[div_ndigits], 0, 0, 0),
                            fdivisorinverse) } } : TRUE

\* the number of quotient digits div_var_fast computes
div_fast_ndigits(var1, var2, rscale) ==
    Max(Max((var1.weight - var2.weight + 1) + 1
              + CDiv(rscale + DEC_DIGITS - 1, DEC_DIGITS) + DIV_GUARD_DIGITS,
            DIV_GUARD_DIGITS),
        var1.ndigits)

\* div_var_fast(var1, var2, result, rscale, round) past its two early
\* returns: [defined, result]
div_fast_quotient(var1, var2, rscale, round) ==
    LET div_ndigits == div_fast_ndigits(var1, var2, rscale)
        div0 == [i \in 0 .. div_ndigits |->
                   IF 1 <= i /\ i <= var1.ndigits THEN Digit(var1.digits, i - 1)
                   ELSE 0]
        d(i) == IF i < var2.ndigits THEN Digit(var2.digits, i) ELSE 0
    IN  CHOOSE r \in
          { CHOOSE s \in
              { CHOOSE t \in
                  { IF ~loop.defined \/ ~fin.defined
                    THEN [defined |-> FALSE, result |-> numeric_init]
                    ELSE [defined |-> TRUE,
                          result |->
                            strip_var(
                              IF round
                              THEN round_var(
                                     NumericVar(div_ndigits + 1,
                                         var1.weight - var2.weight + 1,
                                         IF var1.sign = var2.sign
                                         THEN NUMERIC_POS ELSE NUMERIC_NEG,
                                         0, fin.res_digits), rscale)
                              ELSE trunc_var(
                                     NumericVar(div_ndigits + 1,
                                         var1.weight - var2.weight + 1,
                                         IF var1.sign = var2.sign
                                         THEN NUMERIC_POS ELSE NUMERIC_NEG,
                                         0, fin.res_digits), rscale))] :
                      fin \in { IF loop.defined
                                THEN div_fast_digits(loop.div, fdivisorinverse,
                                                     div_ndigits)
                                ELSE [defined |-> FALSE, res_digits |-> <<>>] } } :
                  TRUE :
                  loop \in { div_fast_loop(div0, 0, 1, fdivisorinverse,
                                           var2.digits, var2.ndigits,
                                           div_ndigits) } } : TRUE :
              fdivisorinverse \in
                { Reciprocal(FourDigits(d(0), d(1), d(2), d(3))) } } : TRUE

\* the calls of div_var_fast on which no int overflows
div_var_fastCovered(var1, var2, rscale, round) ==
    IF var2.ndigits = 0 THEN TRUE
    ELSE IF Digit(var2.digits, 0) = 0 \/ var1.ndigits = 0 THEN TRUE
    ELSE div_fast_quotient(var1, var2, rscale, round).defined

div_var_fast(var1, var2, result, rscale, round) ==
    IF var2.ndigits = 0 \/ Digit(var2.digits, 0) = 0
    THEN [errcode |-> NUMERIC_ERRCODE_DIVISION_BY_ZERO, result |-> result]
    ELSE IF var1.ndigits = 0
    THEN [errcode |-> NUMERIC_ERRCODE_NO_ERROR,
          result |-> NumericVar(0, 0, NUMERIC_POS, rscale, <<>>)]
    ELSE [errcode |-> NUMERIC_ERRCODE_NO_ERROR,
          result |-> div_fast_quotient(var1, var2, rscale, round).result]


\* the while loop: ((exp >>= 1) > 0).  prod and res are the values of
\* base_prod and result after one round.
RECURSIVE power_loop(_, _, _, _)
power_loop(base_prod, result, exp, local_rscale) ==
    LET exp1 == exp \div 2
    IN  IF exp1 > 0
        THEN CHOOSE r \in
               { power_loop(prod, res, exp1, local_rscale) :
                   <<prod, res>> \in
                     { <<p, IF exp1 % 2 = 1 THEN mul_var(p, r0, local_rscale)
                            ELSE r0>> :
                         p \in {mul_var(b, b, local_rscale) : b \in {base_prod}},
                         r0 \in {result} } } : TRUE
        ELSE result

\* the largest exponent the session raises a decimal to
MaxExp == 5

\* base_prod and result start as copies of base (or of one), and the while
\* loop runs on |exp|
power_var_int_product(base, exp, rscale) ==
    power_loop(set_var_from_var(base),
               IF Abs(exp) % 2 = 1 THEN set_var_from_var(base)
               ELSE set_var_from_var(const_one),
               Abs(exp), rscale + MUL_GUARD_DIGITS * 2)

\* the calls of power_var_int this model covers: Abs(exp) is an int, and
\* the division of a negative exp overflows no int
power_var_intCovered(base, exp, rscale) ==
    /\ exp >= -INT_MAX
    /\ exp < -1 =>
          div_var_fastCovered(const_one, power_var_int_product(base, exp, rscale),
                              rscale, TRUE)

\* the return value of div_var_fast is not looked at
power_var_int(base, exp, rscale) ==
    CASE exp = 0 -> [set_var_from_var(const_one) EXCEPT !.dscale = rscale]
      [] exp = 1 -> round_var(set_var_from_var(base), rscale)
      [] exp = -1 -> div_var(const_one, base, numeric_init, rscale, TRUE).result
      [] exp = 2 -> mul_var(base, base, rscale)
      [] OTHER ->
           CHOOSE r \in
             { IF exp < 0
               THEN div_var_fast(const_one, prod, prod, rscale, TRUE).result
               ELSE round_var(prod, rscale) :
                 prod \in { power_var_int_product(base, exp, rscale) } } : TRUE

\* (int) log10(dig) for a digit 1 .. NBASE - 1
log10(dig) ==
    IF dig < 10 THEN 0 ELSE IF dig < 100 THEN 1 ELSE IF dig < 1000 THEN 2 ELSE 3

\* the decimal digits of n > 0
RECURSIVE DecimalChars(_)
DecimalChars(n) ==
    IF n < 10 THEN <<DecChar(n)>>
    ELSE Append(DecimalChars(n \div 10), DecChar(n % 10))

\* snprintf "%+03d"
SignedExponentChars(exponent) ==
    LET digits == DecimalChars(IF exponent < 0 THEN -exponent ELSE exponent)
    IN  <<IF exponent < 0 THEN "-" ELSE "+">>
          \o (IF Len(digits) < 2 THEN <<"0">> ELSE <<>>) \o digits

sci_exponent(var) ==
    IF var.ndigits > 0
    THEN (var.weight + 1) * DEC_DIGITS
           - (DEC_DIGITS - log10(Digit(var.digits, 0)))
    ELSE 0

\* the scientific notation this model prints: its exponent is -1 or more
get_str_from_var_sciCovered(var) == sci_exponent(var) >= -1

get_str_from_var_sci(var, rscale0) ==
    LET rscale == IF rscale0 < 0 THEN 0 ELSE rscale0
        exponent == sci_exponent(var)
        denom_scale == IF exponent < 0 THEN -exponent ELSE 0
        denominator == power_var_int(int64_to_numericvar(10), exponent,
                                     denom_scale)
        significand == div_var(var, denominator, numeric_init, rscale,
                               TRUE).result
        sig_out == get_str_from_var(significand, rscale)
    IN  sig_out \o <<"e">> \o SignedExponentChars(exponent)

(***************************************************************************)
(* check_bounds_and_round                                                  *)
(***************************************************************************)
\* "Adjust for any high-order decimal zero digits"
LeadingDecimalZeroes(dig) ==
    IF dig < 10 THEN 3 ELSE IF dig < 100 THEN 2 ELSE IF dig < 1000 THEN 1 ELSE 0

check_bounds_and_round(var0, precision, scale) ==
    IF precision < 0
    THEN [errcode |-> NUMERIC_ERRCODE_NO_ERROR, var |-> var0]
    ELSE
      LET maxdigits == precision - scale
          var == round_var(var0, scale)
          i == FirstNonzero(var.digits, var.ndigits, 0)
          ddigits == (var.weight + 1) * DEC_DIGITS - i * DEC_DIGITS
                       - LeadingDecimalZeroes(Digit(var.digits, i))
      IN  IF (var.weight + 1) * DEC_DIGITS > maxdigits /\ i < var.ndigits
             /\ ddigits > maxdigits
          THEN [errcode |-> NUMERIC_ERRCODE_NUMERIC_VALUE_OUT_OF_RANGE, var |-> var]
          ELSE [errcode |-> NUMERIC_ERRCODE_NO_ERROR, var |-> var]

(***************************************************************************)
(* The public operations.  Each takes the input decimals and the content   *)
(* of the caller's output decimal, and returns the error code with the     *)
(* output's new content.                                                   *)
(***************************************************************************)
Return(errcode, result) == [errcode |-> errcode, result |-> result]

numeric_from_str(str, precision, scale, result) ==
    LET cp == SkipSpaces(str, 1)
        nan == make_result(const_nan, result)
        parsed == set_var_from_str(str, cp)
        value == check_bounds_and_round(parsed.dest, precision, scale).var
    IN  IF IsNaNPrefix(str, cp)
        THEN IF nan.errcode # NUMERIC_ERRCODE_NO_ERROR THEN nan
             ELSE IF ~OnlySpaces(str, cp + 3)
             THEN Return(NUMERIC_ERRCODE_INVALID_ARGUMENT, nan.result)
             ELSE Return(NUMERIC_ERRCODE_NO_ERROR, nan.result)
        ELSE IF parsed.errcode # NUMERIC_ERRCODE_NO_ERROR
        THEN Return(parsed.errcode, result)
        ELSE IF ~OnlySpaces(str, parsed.cp)
        THEN Return(NUMERIC_ERRCODE_INVALID_ARGUMENT, result)
        ELSE make_result(value, result)

NaNString == <<"N", "a", "N">>

numeric_to_str(num, scale) ==
    IF NUMERIC_IS_NAN(num) THEN NaNString
    ELSE LET x == set_var_from_var(num)
         IN  get_str_from_var(x, IF scale < 0 THEN x.dscale ELSE scale)

numeric_to_str_sciCovered(num) ==
    NUMERIC_IS_NAN(num) \/ get_str_from_var_sciCovered(num)

numeric_to_str_sci(num, scale) ==
    IF NUMERIC_IS_NAN(num) THEN NaNString
    ELSE LET x == set_var_from_var(num)
         IN  get_str_from_var_sci(x, IF scale < 0 THEN x.dscale ELSE scale)

numeric_abs(num, result) ==
    LET made == make_result(num, result)
    IN  IF NUMERIC_IS_NAN(num) THEN make_result(const_nan, result)
        ELSE IF made.errcode # NUMERIC_ERRCODE_NO_ERROR THEN made
        ELSE Return(NUMERIC_ERRCODE_NO_ERROR, SetSign(made.result, NUMERIC_POS))

\* numeric_minus without its test for zero
numeric_minus_unguarded(num, result) ==
    LET made == make_result(num, result)
    IN  IF NUMERIC_IS_NAN(num) THEN make_result(const_nan, result)
        ELSE IF made.errcode # NUMERIC_ERRCODE_NO_ERROR THEN made
        ELSE Return(NUMERIC_ERRCODE_NO_ERROR,
                    SetSign(made.result, IF num.sign = NUMERIC_POS
                                         THEN NUMERIC_NEG ELSE NUMERIC_POS))

numeric_minus(num, result) ==
    LET made == make_result(num, result)
    IN  IF NUMERIC_IS_NAN(num) THEN make_result(const_nan, result)
        ELSE IF made.errcode # NUMERIC_ERRCODE_NO_ERROR THEN made
        ELSE IF ~NUMERIC_IS_ZERO(num)
        THEN Return(NUMERIC_ERRCODE_NO_ERROR,
                    SetSign(made.result, IF num.sign = NUMERIC_POS
                                         THEN NUMERIC_NEG ELSE NUMERIC_POS))
        ELSE made

numeric_plus(num, result) == make_result(num, result)

numeric_sign(num, result) ==
    LET made == make_result(const_one, result)
    IN  IF NUMERIC_IS_NAN(num) THEN make_result(const_nan, result)
        ELSE IF NUMERIC_IS_ZERO(num) THEN make_result(const_zero, result)
        ELSE IF made.errcode # NUMERIC_ERRCODE_NO_ERROR THEN made
        ELSE Return(NUMERIC_ERRCODE_NO_ERROR, SetSign(made.result, num.sign))

\* scale = Max(scale, -NUMERIC_MAX_RESULT_SCALE); scale = Min(scale, ...)
ClampScale(scale) ==
    Min(Max(scale, -NUMERIC_MAX_RESULT_SCALE), NUMERIC_MAX_RESULT_SCALE)

\* numeric_round dropping the digits instead of rounding them
numeric_round_truncating(num, scale, result) ==
    LET arg == trunc_var(set_var_from_var(num), ClampScale(scale))
    IN  IF NUMERIC_IS_NAN(num) THEN make_result(const_nan, result)
        ELSE make_result(IF ClampScale(scale) < 0
                         THEN [arg EXCEPT !.dscale = 0] ELSE arg, result)

numeric_round(num, scale, result) ==
    LET arg == round_var(set_var_from_var(num), ClampScale(scale))
    IN  IF NUMERIC_IS_NAN(num) THEN make_result(const_nan, result)
        ELSE make_result(IF ClampScale(scale) < 0
                         THEN [arg EXCEPT !.dscale = 0] ELSE arg, result)

numeric_trunc(num, scale, result) ==
    LET arg == trunc_var(set_var_from_var(num), ClampScale(scale))
    IN  IF NUMERIC_IS_NAN(num) THEN make_result(const_nan, result)
        ELSE make_result(IF ClampScale(scale) < 0
                         THEN [arg EXCEPT !.dscale = 0] ELSE arg, result)

numeric_ceil(num, result) ==
    IF NUMERIC_IS_NAN(num) THEN make_result(const_nan, result)
    ELSE make_result(ceil_var(set_var_from_var(num)), result)

numeric_floor(num, result) ==
    IF NUMERIC_IS_NAN(num) THEN make_result(const_nan, result)
    ELSE make_result(floor_var(set_var_from_var(num)), result)

\* numeric_add without its NaN test
numeric_add_unchecked(num1, num2, result) ==
    make_result(add_var(num1, num2), result)

numeric_add(num1, num2, result) ==
    IF NUMERIC_IS_NAN(num1) \/ NUMERIC_IS_NAN(num2)
    THEN make_result(const_nan, result)
    ELSE make_result(add_var(num1, num2), result)

numeric_sub(num1, num2, result) ==
    IF NUMERIC_IS_NAN(num1) \/ NUMERIC_IS_NAN(num2)
    THEN make_result(const_nan, result)
    ELSE make_result(sub_var(num1, num2), result)

\* numeric_mul asking mul_var for the display scale of num1 only
numeric_mul_narrow(num1, num2, result) ==
    IF NUMERIC_IS_NAN(num1) \/ NUMERIC_IS_NAN(num2)
    THEN make_result(const_nan, result)
    ELSE make_result(mul_var(num1, num2, num1.dscale), result)

numeric_mul(num1, num2, result) ==
    IF NUMERIC_IS_NAN(num1) \/ NUMERIC_IS_NAN(num2)
    THEN make_result(const_nan, result)
    ELSE make_result(mul_var(num1, num2, num1.dscale + num2.dscale), result)

\* numeric_div testing for a zero divisor before testing for NaN
numeric_div_zero_first(num1, num2, result) ==
    LET rscale == select_div_scale(num1, num2)
        quot == div_var(num1, num2, numeric_init, rscale, TRUE)
    IN  IF quot.errcode # NUMERIC_ERRCODE_NO_ERROR
        THEN Return(quot.errcode, result)
        ELSE IF NUMERIC_IS_NAN(num1) \/ NUMERIC_IS_NAN(num2)
        THEN make_result(const_nan, result)
        ELSE make_result(quot.result, result)

numeric_div(num1, num2, result) ==
    LET rscale == select_div_scale(num1, num2)
        quot == div_var(num1, num2, numeric_init, rscale, TRUE)
    IN  IF NUMERIC_IS_NAN(num1) \/ NUMERIC_IS_NAN(num2)
        THEN make_result(const_nan, result)
        ELSE IF quot.errcode # NUMERIC_ERRCODE_NO_ERROR
        THEN Return(quot.errcode, result)
        ELSE make_result(quot.result, result)

\* numeric_div_trunc asking div_var to round
numeric_div_trunc_rounding(num1, num2, result) ==
    LET quot == div_var(num1, num2, numeric_init, 0, TRUE)
    IN  IF NUMERIC_IS_NAN(num1) \/ NUMERIC_IS_NAN(num2)
        THEN make_result(const_nan, result)
        ELSE IF quot.errcode # NUMERIC_ERRCODE_NO_ERROR
        THEN Return(quot.errcode, result)
        ELSE make_result(quot.result, result)

numeric_div_trunc(num1, num2, result) ==
    LET quot == div_var(num1, num2, numeric_init, 0, FALSE)
    IN  IF NUMERIC_IS_NAN(num1) \/ NUMERIC_IS_NAN(num2)
        THEN make_result(const_nan, result)
        ELSE IF quot.errcode # NUMERIC_ERRCODE_NO_ERROR
        THEN Return(quot.errcode, result)
        ELSE make_result(quot.result, result)

numeric_mod(num1, num2, result) ==
    LET rem == mod_var(num1, num2, numeric_init)
    IN  IF NUMERIC_IS_NAN(num1) \/ NUMERIC_IS_NAN(num2)
        THEN make_result(const_nan, result)
        ELSE IF rem.errcode # NUMERIC_ERRCODE_NO_ERROR
        THEN Return(rem.errcode, result)
        ELSE make_result(rem.result, result)

numeric_min(num1, num2, result) ==
    IF cmp_numerics(num1, num2) < 0
    THEN make_result(num1, result)
    ELSE make_result(num2, result)

numeric_max(num1, num2, result) ==
    IF cmp_numerics(num1, num2) > 0
    THEN make_result(num1, result)
    ELSE make_result(num2, result)

(***************************************************************************)
(* sqrt, exp, ln, log10, power.  The iterative computations (Newton's      *)
(* iteration, the Taylor series) are followed pass by pass in the section  *)
(* on the loops: each routine below covers the calls that return without   *)
(* them (for power, also the int exponents that power_var_int raises to),  *)
(* and its ...Covered predicate says which calls those are.                *)
(***************************************************************************)
sqrt_rscale(num) ==
    LET sweight == CDiv((num.weight + 1) * DEC_DIGITS, 2) - 1
    IN  Min(Max(Max(NUMERIC_MIN_SIG_DIGITS - sweight, num.dscale),
                NUMERIC_MIN_DISPLAY_SCALE), NUMERIC_MAX_DISPLAY_SCALE)

sqrt_varCovered(arg) == cmp_var(arg, const_zero) <= 0

sqrt_var(arg, result, rscale) ==
    IF cmp_var(arg, const_zero) = 0
    THEN Return(NUMERIC_ERRCODE_NO_ERROR,
                NumericVar(0, 0, NUMERIC_POS, rscale, <<>>))
    ELSE Return(NUMERIC_ERRCODE_INVALID_ARGUMENT, result)

numeric_sqrtCovered(num) == NUMERIC_IS_NAN(num) \/ sqrt_varCovered(num)

numeric_sqrt(num, result) ==
    LET root == sqrt_var(num, numeric_init, sqrt_rscale(num))
    IN  IF NUMERIC_IS_NAN(num) THEN make_result(const_nan, result)
        ELSE IF root.errcode # NUMERIC_ERRCODE_NO_ERROR
        THEN Return(root.errcode, result)
        ELSE make_result(root.result, result)

numeric_expCovered(num) == NUMERIC_IS_NAN(num)

numeric_exp(num, result) == make_result(const_nan, result)

ln_varCovered(arg) == cmp_var(arg, const_zero) <= 0

ln_var(arg, result) == Return(NUMERIC_ERRCODE_INVALID_ARGUMENT, result)

numeric_lnCovered(num) == NUMERIC_IS_NAN(num) \/ ln_varCovered(num)

numeric_ln(num, result) ==
    IF NUMERIC_IS_NAN(num) THEN make_result(const_nan, result)
    ELSE Return(ln_var(num, numeric_init).errcode, result)

\* log_var(&const_ten, num, ...): ln(10) succeeds, then ln_var(num) decides
numeric_log10Covered(num) == NUMERIC_IS_NAN(num) \/ ln_varCovered(num)

numeric_log10(num, result) ==
    IF NUMERIC_IS_NAN(num) THEN make_result(const_nan, result)
    ELSE Return(ln_var(num, numeric_init).errcode, result)

\* the two invalid-argument tests of numeric_power
power_invalid(num1, num2) ==
    LET arg2_trunc == trunc_var(set_var_from_var(num2), 0)
    IN  \/ cmp_var(num1, const_zero) = 0 /\ cmp_var(num2, const_zero) < 0
        \/ cmp_var(num1, const_zero) < 0 /\ cmp_var(num2, arg2_trunc) # 0

\* (int64_t) expval
WidenToInt64(expval) ==
    IF expval >= 0 THEN Signed(FALSE, BigNorm(int64_digits_le(expval)))
    ELSE Signed(TRUE, BigAdd(BigNorm(int64_digits_le(-(expval + 1))), <<1>>))

\* "If exp can be represented as an integer"
power_var_exp_is_integer(exp) ==
    exp.ndigits = 0 \/ exp.ndigits <= exp.weight + 1

\* "exact integer, but does it fit in int?", for r = numericvar_to_int64(x)
power_var_exp_fits_int(exp, r) ==
    /\ power_var_exp_is_integer(exp)
    /\ r.ok
    /\ WidenToInt64(NarrowToInt32(r.val)) = r.val

\* the calls of power_var whose computation is part of this model: an int
\* exponent from -MaxExp to MaxExp, and otherwise a base that is not positive
\* (a positive base goes on to ln_var's series and exp_var)
power_varCovered(base, exp) ==
    IF power_var_exp_is_integer(exp)
    THEN /\ numericvar_to_int64Covered(exp)
         /\ \E r \in {numericvar_to_int64(set_var_from_var(exp))} :
               IF power_var_exp_fits_int(exp, r)
               THEN /\ NarrowToInt32(r.val) <= MaxExp
                    /\ -NarrowToInt32(r.val) <= MaxExp
                    /\ power_var_intCovered(base, NarrowToInt32(r.val),
                           Min(Max(Max(NUMERIC_MIN_SIG_DIGITS, base.dscale),
                                   NUMERIC_MIN_DISPLAY_SCALE),
                               NUMERIC_MAX_DISPLAY_SCALE))
               ELSE ln_varCovered(base)
    ELSE ln_varCovered(base)

\* x64 = numericvar_to_int64(x), computed once
power_var(base, exp, result) ==
    CHOOSE ret \in
      { IF power_var_exp_fits_int(exp, x64)
        THEN Return(NUMERIC_ERRCODE_NO_ERROR,
                    power_var_int(base, NarrowToInt32(x64.val),
                        Min(Max(Max(NUMERIC_MIN_SIG_DIGITS, base.dscale),
                                NUMERIC_MIN_DISPLAY_SCALE),
                            NUMERIC_MAX_DISPLAY_SCALE)))
        ELSE IF cmp_var(base, const_zero) = 0
        THEN Return(NUMERIC_ERRCODE_NO_ERROR,
                    [set_var_from_var(const_zero)
                       EXCEPT !.dscale = NUMERIC_MIN_SIG_DIGITS])
        ELSE Return(ln_var(base, numeric_init).errcode, result) :
          x64 \in {IF power_var_exp_is_integer(exp)
                   THEN numericvar_to_int64(set_var_from_var(exp))
                   ELSE [ok |-> FALSE, val |-> Signed(FALSE, <<>>)]} } : TRUE

numeric_powerCovered(num1, num2) ==
    \/ NUMERIC_IS_NAN(num1)
    \/ NUMERIC_IS_NAN(num2)
    \/ power_invalid(num1, num2)
    \/ power_varCovered(num1, num2)

\* r = power_var(num1, num2, &result_var), computed once
numeric_power(num1, num2, result) ==
    IF NUMERIC_IS_NAN(num1) \/ NUMERIC_IS_NAN(num2)
    THEN make_result(const_nan, result)
    ELSE IF power_invalid(num1, num2)
    THEN Return(NUMERIC_ERRCODE_INVALID_ARGUMENT, result)
    ELSE CHOOSE ret \in
           { IF r.errcode # NUMERIC_ERRCODE_NO_ERROR
             THEN Return(r.errcode, result)
             ELSE make_result(r.result, result) :
               r \in {power_var(num1, num2, numeric_init)} } : TRUE

(***************************************************************************)
(* The digit buffers a call touches, in program order.  <<"read", b>> is a *)
(* read of a digit of buffer b and <<"free", b>> is digitbuf_free(b).      *)
(***************************************************************************)
\* make_result(var, result), var's digits in varbuf and result's in resultbuf
make_result_buffers(var, varbuf, resultbuf) ==
    LET lead == LeadingZeroes(var.digits)
        weight == var.weight - lead
        digits == TruncTrailingZeroes(SubSeq(var.digits, lead + 1, Len(var.digits)))
        n == Len(digits)
        scanned == IF var.ndigits > 0 THEN << <<"read", varbuf>> >> ELSE <<>>
    IN  IF NUMERIC_IS_NAN(var) THEN << <<"free", resultbuf>> >>
        ELSE IF n = 0 THEN scanned \o << <<"free", resultbuf>> >>
        ELSE IF weight < INT16_MIN \/ INT16_MAX < weight
                \/ var.dscale < INT16_MIN \/ INT16_MAX < var.dscale
        THEN scanned
        ELSE scanned \o << <<"read", varbuf>>, <<"free", resultbuf>> >>

\* the local result_var of a binary operation on two numbers
binary_result_var(op, num1, num2) ==
    CASE op = "add" -> Return(NUMERIC_ERRCODE_NO_ERROR, add_var(num1, num2))
      [] op = "sub" -> Return(NUMERIC_ERRCODE_NO_ERROR, sub_var(num1, num2))
      [] op = "mul" -> Return(NUMERIC_ERRCODE_NO_ERROR,
                              mul_var(num1, num2, num1.dscale + num2.dscale))
      [] op = "div" -> div_var(num1, num2, numeric_init,
                               select_div_scale(num1, num2), TRUE)
      [] op = "div_trunc" -> div_var(num1, num2, numeric_init, 0, FALSE)
      [] op = "mod" -> mod_var(num1, num2, numeric_init)
      [] op = "power" ->
           IF power_invalid(num1, num2)
           THEN Return(NUMERIC_ERRCODE_INVALID_ARGUMENT, numeric_init)
           ELSE power_var(num1, num2, numeric_init)

\* a binary operation whose inputs have their digits in buf1 and buf2
binary_buffers(op, num1, num2, buf1, buf2, resultbuf) ==
    LET isnan == NUMERIC_IS_NAN(num1) \/ NUMERIC_IS_NAN(num2)
        reads == (IF num1.ndigits > 0 THEN << <<"read", buf1>> >> ELSE <<>>)
                   \o (IF num2.ndigits > 0 THEN << <<"read", buf2>> >> ELSE <<>>)
        first == IF op = "min" THEN cmp_numerics(num1, num2) < 0
                 ELSE cmp_numerics(num1, num2) > 0
        var == binary_result_var(op, num1, num2)
    IN  IF op \in {"min", "max"}
        THEN (IF isnan THEN <<>> ELSE reads)
               \o (IF first THEN make_result_buffers(num1, buf1, resultbuf)
                   ELSE make_result_buffers(num2, buf2, resultbuf))
        ELSE IF isnan
        THEN make_result_buffers(const_nan, "const_nan", resultbuf)
        ELSE IF var.errcode # NUMERIC_ERRCODE_NO_ERROR THEN reads
        ELSE reads \o make_result_buffers(var.result, "result_var", resultbuf)
               \o << <<"free", "result_var">> >>

(***************************************************************************)
(* The caller's session.  The caller owns NumDecimals decimals; every call *)
(* names its input decimals and its output decimal (distinct decimals,     *)
(* except in the ...Aliased calls).                                        *)
(*   decimals  the content of the caller's decimals                        *)
(*   call      the last call: operation, arguments, output index, the      *)
(*             output's content before the call, returned error code, and  *)
(*             the int (value) or bool (truth) a call returns otherwise,   *)
(*             the text, precision and scale given to numeric_from_str,    *)
(*             the address given to numeric_to_int32, and the arguments    *)
(*             (alias, positions 1 and 2) that are the output decimal, and *)
(*             the int64_t (int64, four 16-bit limbs, least significant    *)
(*             first, in two's complement) given to numeric_from_int64 or  *)
(*             stored by numeric_to_int64                                  *)
(*   str       the last string numeric_to_str returned                     *)
(*   nops      the number of calls made                                    *)
(***************************************************************************)
VARIABLES decimals, call, str, nops

vars == <<decimals, call, str, nops>>

NumDecimals == 3
MaxOps == 2
Decimals == 1 .. NumDecimals

\* the string literal "..." as a sequence of characters
SeedStrings ==
    { <<"0">>, <<"N", "a", "N">>, <<"1", ".", "1", "3">>,
      <<"-", "1", ".", "1", "3">> }

InputStrings ==
    { <<"0", ".", "0">>, <<"N", "a", "N", "x">>, <<" ", "n", "a", "n", " ">>,
      <<"-", "1", "2", "3", "4", "5", ".", "6", "7", "8">>,
      <<"1", "e", "2">>, <<"a", "b", "c">>, <<"1", ".", ".", "2">>,
      <<".", "5">> }

Scales == {-1, 0, 1}
WideScales == {-3000, 3000}
\* <<precision, scale>> given to numeric_from_str
Typmods == { <<4, 2>> }
PrintScales == {-1, 0, 2}
SciScales == {-1, 1, 3}
\* the most digits after the point the session prints in scientific notation
MaxSciScale == 20

\* the null pointer and the addresses of the caller's int32_t: a variable
\* in static storage (0x404040) and one on the stack (0x7ffd5a3c1e2c)
NULL == Signed(FALSE, <<>>)
Addresses ==
    { Signed(FALSE, <<752, 421>>), Signed(FALSE, <<2764, 1734, 7261, 140>>) }

\* what numeric_from_str leaves in a freshly initialized decimal
Parsed(s) == numeric_from_str(s, -1, 0, numeric_init).result

Seeds == { Parsed(s) : s \in SeedStrings }

NoCall ==
    [op |-> "none", arg1 |-> numeric_init, arg2 |-> numeric_init, out |-> 0,
     before |-> numeric_init, errcode |-> NUMERIC_ERRCODE_NO_ERROR,
     scale |-> 0, text |-> <<>>, precision |-> -1, value |-> 0,
     truth |-> FALSE, address |-> NULL, int64 |-> <<>>, alias |-> {}]

\* the last decimal is as numeric_init left it, the others hold parsed values
Init ==
    /\ decimals \in [Decimals -> Seeds \cup {numeric_init}]
    /\ decimals[NumDecimals] = numeric_init
    /\ call = NoCall
    /\ str = <<>>
    /\ nops = 0

\* the call returned ret into decimal k
Returned(op, arg1, arg2, k, scale, text, ret) ==
    /\ nops < MaxOps
    /\ decimals' = [decimals EXCEPT ![k] = ret.result]
    /\ call' = [op |-> op, arg1 |-> arg1, arg2 |-> arg2, out |-> k,
                before |-> decimals[k], errcode |-> ret.errcode,
                scale |-> scale, text |-> text, precision |-> -1,
                value |-> 0, truth |-> FALSE, address |-> NULL,
                int64 |-> <<>>, alias |-> {}]
    /\ nops' = nops + 1
    /\ UNCHANGED str

\* the call compared arg1 with arg2 and returned the int value or the bool
\* truth
Compared(op, arg1, arg2, value, truth) ==
    /\ nops < MaxOps
    /\ call' = [op |-> op, arg1 |-> arg1, arg2 |-> arg2, out |-> 0,
                before |-> numeric_init, errcode |-> NUMERIC_ERRCODE_NO_ERROR,
                scale |-> 0, text |-> <<>>, precision |-> -1,
                value |-> value, truth |-> truth, address |-> NULL,
                int64 |-> <<>>, alias |-> {}]
    /\ nops' = nops + 1
    /\ UNCHANGED <<decimals, str>>

FromStr(precision, scale) ==
    \E s \in InputStrings \cup {str}, k \in Decimals :
        /\ nops < MaxOps
        /\ \E ret \in {numeric_from_str(s, precision, scale, decimals[k])} :
            /\ decimals' = [decimals EXCEPT ![k] = ret.result]
            /\ call' = [op |-> "from_str", arg1 |-> numeric_init,
                        arg2 |-> numeric_init, out |-> k,
                        before |-> decimals[k], errcode |-> ret.errcode,
                        scale |-> scale, text |-> s,
                        precision |-> precision, value |-> 0, truth |-> FALSE,
                        address |-> NULL, int64 |-> <<>>, alias |-> {}]
            /\ nops' = nops + 1
            /\ UNCHANGED str

\* numeric_from_str without a typmod
CallFromStr == FromStr(-1, 0)

\* numeric_from_str under a typmod
CallFromStrTypmod == \E typmod \in Typmods : FromStr(typmod[1], typmod[2])

CallToStr ==
    \E i \in Decimals, scale \in PrintScales :
        /\ nops < MaxOps
        /\ str' = numeric_to_str(decimals[i], scale)
        /\ call' = [op |-> "to_str", arg1 |-> decimals[i], arg2 |-> numeric_init,
                    out |-> 0, before |-> numeric_init,
                    errcode |-> NUMERIC_ERRCODE_NO_ERROR, scale |-> scale,
                    text |-> <<>>, precision |-> -1, value |-> 0,
                    truth |-> FALSE, address |-> NULL,
                    int64 |-> <<>>, alias |-> {}]
        /\ nops' = nops + 1
        /\ UNCHANGED decimals

Round(scales) ==
    \E i \in Decimals, scale \in scales : \E k \in Decimals \ {i} :
        Returned("round", decimals[i], numeric_init, k, scale, <<>>,
                 numeric_round(decimals[i], scale, decimals[k]))

Trunc(scales) ==
    \E i \in Decimals, scale \in scales : \E k \in Decimals \ {i} :
        Returned("trunc", decimals[i], numeric_init, k, scale, <<>>,
                 numeric_trunc(decimals[i], scale, decimals[k]))

CallRound == Round(Scales)

CallTrunc == Trunc(Scales)

\* scales beyond NUMERIC_MAX_RESULT_SCALE
CallRoundWide == Round(WideScales)

CallTruncWide == Trunc(WideScales)

CallAbs ==
    \E i \in Decimals : \E k \in Decimals \ {i} :
        /\ Returned("abs", decimals[i], numeric_init, k, 0, <<>>,
                    numeric_abs(decimals[i], decimals[k]))

CallMinus ==
    \E i \in Decimals : \E k \in Decimals \ {i} :
        /\ Returned("minus", decimals[i], numeric_init, k, 0, <<>>,
                    numeric_minus(decimals[i], decimals[k]))

CallPlus ==
    \E i \in Decimals : \E k \in Decimals \ {i} :
        /\ Returned("plus", decimals[i], numeric_init, k, 0, <<>>,
                    numeric_plus(decimals[i], decimals[k]))

CallSign ==
    \E i \in Decimals : \E k \in Decimals \ {i} :
        /\ Returned("sign", decimals[i], numeric_init, k, 0, <<>>,
                    numeric_sign(decimals[i], decimals[k]))

CallCeil ==
    \E i \in Decimals : \E k \in Decimals \ {i} :
        /\ Returned("ceil", decimals[i], numeric_init, k, 0, <<>>,
                    numeric_ceil(decimals[i], decimals[k]))

CallFloor ==
    \E i \in Decimals : \E k \in Decimals \ {i} :
        /\ Returned("floor", decimals[i], numeric_init, k, 0, <<>>,
                    numeric_floor(decimals[i], decimals[k]))

CallSqrt ==
    \E i \in Decimals : \E k \in Decimals \ {i} :
        /\ nops < MaxOps
        /\ numeric_sqrtCovered(decimals[i])
        /\ Returned("sqrt", decimals[i], numeric_init, k, 0, <<>>,
                    numeric_sqrt(decimals[i], decimals[k]))

CallExp ==
    \E i \in Decimals : \E k \in Decimals \ {i} :
        /\ nops < MaxOps
        /\ numeric_expCovered(decimals[i])
        /\ Returned("exp", decimals[i], numeric_init, k, 0, <<>>,
                    numeric_exp(decimals[i], decimals[k]))

CallLn ==
    \E i \in Decimals : \E k \in Decimals \ {i} :
        /\ nops < MaxOps
        /\ numeric_lnCovered(decimals[i])
        /\ Returned("ln", decimals[i], numeric_init, k, 0, <<>>,
                    numeric_ln(decimals[i], decimals[k]))

CallLog10 ==
    \E i \in Decimals : \E k \in Decimals \ {i} :
        /\ nops < MaxOps
        /\ numeric_log10Covered(decimals[i])
        /\ Returned("log10", decimals[i], numeric_init, k, 0, <<>>,
                    numeric_log10(decimals[i], decimals[k]))

CallAdd ==
    \E i \in Decimals : \E j \in Decimals \ {i} : \E k \in Decimals \ {i, j} :
        /\ Returned("add", decimals[i], decimals[j], k, 0, <<>>,
                    numeric_add(decimals[i], decimals[j], decimals[k]))

CallSub ==
    \E i \in Decimals : \E j \in Decimals \ {i} : \E k \in Decimals \ {i, j} :
        /\ Returned("sub", decimals[i], decimals[j], k, 0, <<>>,
                    numeric_sub(decimals[i], decimals[j], decimals[k]))

CallMul ==
    \E i \in Decimals : \E j \in Decimals \ {i} : \E k \in Decimals \ {i, j} :
        /\ Returned("mul", decimals[i], decimals[j], k, 0, <<>>,
                    numeric_mul(decimals[i], decimals[j], decimals[k]))

CallDiv ==
    \E i \in Decimals : \E j \in Decimals \ {i} : \E k \in Decimals \ {i, j} :
        /\ Returned("div", decimals[i], decimals[j], k, 0, <<>>,
                    numeric_div(decimals[i], decimals[j], decimals[k]))

CallDivTrunc ==
    \E i \in Decimals : \E j \in Decimals \ {i} : \E k \in Decimals \ {i, j} :
        /\ Returned("div_trunc", decimals[i], decimals[j], k, 0, <<>>,
                    numeric_div_trunc(decimals[i], decimals[j], decimals[k]))

CallMod ==
    \E i \in Decimals : \E j \in Decimals \ {i} : \E k \in Decimals \ {i, j} :
        /\ Returned("mod", decimals[i], decimals[j], k, 0, <<>>,
                    numeric_mod(decimals[i], decimals[j], decimals[k]))

CallMin ==
    \E i \in Decimals : \E j \in Decimals \ {i} : \E k \in Decimals \ {i, j} :
        /\ Returned("min", decimals[i], decimals[j], k, 0, <<>>,
                    numeric_min(decimals[i], decimals[j], decimals[k]))

CallMax ==
    \E i \in Decimals : \E j \in Decimals \ {i} : \E k \in Decimals \ {i, j} :
        /\ Returned("max", decimals[i], decimals[j], k, 0, <<>>,
                    numeric_max(decimals[i], decimals[j], decimals[k]))

CallPower ==
    \E i \in Decimals : \E j \in Decimals \ {i} : \E k \in Decimals \ {i, j} :
        /\ nops < MaxOps
        /\ numeric_powerCovered(decimals[i], decimals[j])
        /\ \E ret \in {numeric_power(decimals[i], decimals[j], decimals[k])} :
              Returned("power", decimals[i], decimals[j], k, 0, <<>>, ret)

CallCmp ==
    \E i \in Decimals : \E j \in Decimals \ {i} :
        Compared("cmp", decimals[i], decimals[j],
                 numeric_cmp(decimals[i], decimals[j]), FALSE)

CallEq ==
    \E i \in Decimals : \E j \in Decimals \ {i} :
        Compared("eq", decimals[i], decimals[j], 0,
                 numeric_eq(decimals[i], decimals[j]))

CallNe ==
    \E i \in Decimals : \E j \in Decimals \ {i} :
        Compared("ne", decimals[i], decimals[j], 0,
                 numeric_ne(decimals[i], decimals[j]))

CallGt ==
    \E i \in Decimals : \E j \in Decimals \ {i} :
        Compared("gt", decimals[i], decimals[j], 0,
                 numeric_gt(decimals[i], decimals[j]))

CallGe ==
    \E i \in Decimals : \E j \in Decimals \ {i} :
        Compared("ge", decimals[i], decimals[j], 0,
                 numeric_ge(decimals[i], decimals[j]))

CallLt ==
    \E i \in Decimals : \E j \in Decimals \ {i} :
        Compared("lt", decimals[i], decimals[j], 0,
                 numeric_lt(decimals[i], decimals[j]))

CallLe ==
    \E i \in Decimals : \E j \in Decimals \ {i} :
        Compared("le", decimals[i], decimals[j], 0,
                 numeric_le(decimals[i], decimals[j]))

CallToStrSci ==
    \E i \in Decimals, scale \in SciScales :
        /\ nops < MaxOps
        /\ numeric_to_str_sciCovered(decimals[i])
        /\ (IF scale < 0 THEN decimals[i].dscale ELSE scale) <= MaxSciScale
        /\ str' = numeric_to_str_sci(decimals[i], scale)
        /\ call' = [op |-> "to_str_sci", arg1 |-> decimals[i],
                    arg2 |-> numeric_init, out |-> 0, before |-> numeric_init,
                    errcode |-> NUMERIC_ERRCODE_NO_ERROR, scale |-> scale,
                    text |-> <<>>, precision |-> -1, value |-> 0,
                    truth |-> FALSE, address |-> NULL,
                    int64 |-> <<>>, alias |-> {}]
        /\ nops' = nops + 1
        /\ UNCHANGED decimals

CallToInt32 ==
    \E i \in Decimals, result \in Addresses :
        /\ nops < MaxOps
        /\ numeric_to_int32Covered(decimals[i])
        /\ \E ret \in {numeric_to_int32(decimals[i], result, call.value)} :
            /\ call' = [op |-> "to_int32", arg1 |-> decimals[i],
                        arg2 |-> numeric_init, out |-> 0,
                        before |-> numeric_init, errcode |-> ret.errcode,
                        scale |-> 0, text |-> <<>>, precision |-> -1,
                        value |-> ret.out, truth |-> FALSE, address |-> result,
                        int64 |-> <<>>, alias |-> {}]
            /\ nops' = nops + 1
            /\ UNCHANGED <<decimals, str>>

\* the call returned ret into decimal k, which is also its input i or j
ReturnedAliased(op, i, j, k, ret) ==
    /\ nops < MaxOps
    /\ decimals' = [decimals EXCEPT ![k] = ret.result]
    /\ call' = [op |-> op, arg1 |-> decimals[i], arg2 |-> decimals[j],
                out |-> k, before |-> decimals[k], errcode |-> ret.errcode,
                scale |-> 0, text |-> <<>>, precision |-> -1,
                value |-> 0, truth |-> FALSE, address |-> NULL,
                int64 |-> <<>>, alias |-> (IF k = i THEN {1} ELSE {}) \cup
                          (IF k = j THEN {2} ELSE {})]
    /\ nops' = nops + 1
    /\ UNCHANGED str

CallAddAliased ==
    \E i \in Decimals, j \in Decimals : \E k \in {i, j} :
        /\ nops < MaxOps
        /\ \E ret \in {numeric_add(decimals[i], decimals[j], decimals[k])} :
              ReturnedAliased("add", i, j, k, ret)

CallSubAliased ==
    \E i \in Decimals, j \in Decimals : \E k \in {i, j} :
        /\ nops < MaxOps
        /\ \E ret \in {numeric_sub(decimals[i], decimals[j], decimals[k])} :
              ReturnedAliased("sub", i, j, k, ret)

CallMulAliased ==
    \E i \in Decimals, j \in Decimals : \E k \in {i, j} :
        /\ nops < MaxOps
        /\ \E ret \in {numeric_mul(decimals[i], decimals[j], decimals[k])} :
              ReturnedAliased("mul", i, j, k, ret)

CallDivAliased ==
    \E i \in Decimals, j \in Decimals : \E k \in {i, j} :
        /\ nops < MaxOps
        /\ \E ret \in {numeric_div(decimals[i], decimals[j], decimals[k])} :
              ReturnedAliased("div", i, j, k, ret)

CallDivTruncAliased ==
    \E i \in Decimals, j \in Decimals : \E k \in {i, j} :
        /\ nops < MaxOps
        /\ \E ret \in {numeric_div_trunc(decimals[i], decimals[j], decimals[k])} :
              ReturnedAliased("div_trunc", i, j, k, ret)

CallModAliased ==
    \E i \in Decimals, j \in Decimals : \E k \in {i, j} :
        /\ nops < MaxOps
        /\ \E ret \in {numeric_mod(decimals[i], decimals[j], decimals[k])} :
              ReturnedAliased("mod", i, j, k, ret)

CallMinAliased ==
    \E i \in Decimals, j \in Decimals : \E k \in {i, j} :
        /\ nops < MaxOps
        /\ \E ret \in {numeric_min(decimals[i], decimals[j], decimals[k])} :
              ReturnedAliased("min", i, j, k, ret)

CallMaxAliased ==
    \E i \in Decimals, j \in Decimals : \E k \in {i, j} :
        /\ nops < MaxOps
        /\ \E ret \in {numeric_max(decimals[i], decimals[j], decimals[k])} :
              ReturnedAliased("max", i, j, k, ret)

CallPowerAliased ==
    \E i \in Decimals, j \in Decimals : \E k \in {i, j} :
        /\ nops < MaxOps
        /\ numeric_powerCovered(decimals[i], decimals[j])
        /\ \E ret \in {numeric_power(decimals[i], decimals[j], decimals[k])} :
              ReturnedAliased("power", i, j, k, ret)

Next ==
    \/ CallFromStr
    \/ CallToStr
    \/ CallRound
    \/ CallTrunc
    \/ CallAbs
    \/ CallMinus
    \/ CallPlus
    \/ CallSign
    \/ CallCeil
    \/ CallFloor
    \/ CallSqrt
    \/ CallExp
    \/ CallLn
    \/ CallLog10
    \/ CallAdd
    \/ CallSub
    \/ CallMul
    \/ CallDiv
    \/ CallDivTrunc
    \/ CallMod
    \/ CallMin
    \/ CallMax
    \/ CallPower

Spec == Init /\ [][Next]_vars

(***************************************************************************)
(* The arithmetic session: the caller's first two decimals hold operands   *)
(* parsed from ArithStrings (long and short digit strings, both signs,     *)
(* operands that drive Knuth's algorithm D through its normalization,      *)
(* quotient-digit adjustment and add-back steps), and the calls are the    *)
(* six arithmetic operations.                                              *)
(***************************************************************************)
ArithStrings ==
    { <<"0">>, <<"1">>, <<"-", "3">>, <<"1", ".", "1", "3">>,
      <<"-", "1", ".", "1", "3">>, <<"0", ".", "2">>,
      <<"1", ".", "2", "4", "3">>, <<"0", ".", "0", "0", "0", "1">>,
      <<"9", "9", "9", "9", ".", "9", "9", "9", "9">>,
      <<"5", "0", "0", "0", "9", "9", "9", "9">>,
      <<"5", "0", "0", "0", ".", "9", "9", "9", "9", "0", "0", "0", "1">>,
      <<"9", "9", "9", "9", "9", "9", "9", "9", "0", "0", "0", "1">>,
      <<"1", ".", "0", "0", "0", "1", "0", "0", "0", "1">>,
      <<"-", "9", "8", "7", "6", "5", ".", "4", "3", "2", "1">> }

ArithOperands == { Parsed(s) : s \in ArithStrings }

InitArith ==
    /\ decimals \in { d \in [Decimals -> ArithOperands \cup {numeric_init}] :
                        /\ d[1] \in ArithOperands
                        /\ d[2] \in ArithOperands
                        /\ d[3] = numeric_init }
    /\ call = NoCall
    /\ str = <<>>
    /\ nops = 0

NextArith ==
    \/ CallAdd
    \/ CallSub
    \/ CallMul
    \/ CallDiv
    \/ CallDivTrunc
    \/ CallMod

SpecArith == InitArith /\ [][NextArith]_vars

\* the last call was op, on non-NaN arguments, and returned NO_ERROR
Succeeded(op) ==
    /\ call.op = op
    /\ call.errcode = NUMERIC_ERRCODE_NO_ERROR
    /\ ~NUMERIC_IS_NAN(call.arg1)
    /\ ~NUMERIC_IS_NAN(call.arg2)

\* the decimal the last call returned
Output == decimals[call.out]

\* the last call's output is exactly x + y, x - y, x * y
IsSum(r, x, y) ==
    LET F == Max(FracLimbs(r), Max(FracLimbs(x), FracLimbs(y)))
    IN  SignedAdd(SignedScaled(x, F), SignedScaled(y, F)) = SignedScaled(r, F)

IsDifference(r, x, y) ==
    LET F == Max(FracLimbs(r), Max(FracLimbs(x), FracLimbs(y)))
    IN  SignedAdd(SignedScaled(x, F), SignedNeg(SignedScaled(y, F)))
          = SignedScaled(r, F)

IsProduct(r, x, y) ==
    /\ FracLimbs(r) <= FracLimbs(x) + FracLimbs(y)
    /\ SignedMul(SignedScaled(x, FracLimbs(x)), SignedScaled(y, FracLimbs(y)))
         = SignedScaled(r, FracLimbs(x) + FracLimbs(y))

\* C7: add, sub and mul return exactly a+b, a-b, a*b; a nonzero result has
\* dscale max(a.dscale, b.dscale) (add, sub) or a.dscale + b.dscale (mul);
\* (a+b)-b, a+0 and a*1 equal a in value; add and mul return the same
\* decimal with the operands exchanged.
C7_ExactRing ==
    /\ Succeeded("add") =>
         /\ IsSum(Output, call.arg1, call.arg2)
         /\ Output.ndigits # 0 =>
              Output.dscale = Max(call.arg1.dscale, call.arg2.dscale)
         /\ Output = numeric_add(call.arg2, call.arg1, call.before).result
         /\ SameValue(numeric_sub(Output, call.arg2, numeric_init).result, call.arg1)
         /\ SameValue(numeric_add(call.arg1, const_zero, numeric_init).result, call.arg1)
    /\ Succeeded("sub") =>
         /\ IsDifference(Output, call.arg1, call.arg2)
         /\ Output.ndigits # 0 =>
              Output.dscale = Max(call.arg1.dscale, call.arg2.dscale)
    /\ Succeeded("mul") =>
         /\ IsProduct(Output, call.arg1, call.arg2)
         /\ Output.ndigits # 0 =>
              Output.dscale = call.arg1.dscale + call.arg2.dscale
         /\ Output = numeric_mul(call.arg2, call.arg1, call.before).result
         /\ SameValue(numeric_mul(call.arg1, const_one, numeric_init).result, call.arg1)

\* a product of two operands of several digits each, with carries
C7_Witness ==
    /\ Succeeded("mul")
    /\ call.arg1.ndigits >= 3
    /\ call.arg2.ndigits >= 3
    /\ call.arg1.sign # call.arg2.sign
    /\ Output.ndigits >= 5
    /\ nops = 2

\* the result scale the division is specified to choose, for normalized
\* operands: q is the difference of the weights, one less when the first
\* digit of a is not above the first digit of b
SpecifiedDivScale(a, b) ==
    LET first1 == IF a.ndigits = 0 THEN 0 ELSE Digit(a.digits, 0)
        first2 == IF b.ndigits = 0 THEN 0 ELSE Digit(b.digits, 0)
        q == IF first1 <= first2 THEN a.weight - b.weight - 1
             ELSE a.weight - b.weight
    IN  Min(1000, Max(Max(Max(16 - q * DEC_DIGITS, a.dscale), b.dscale), 0))

\* |q| is |a| / |b| rounded to rscale decimal places, halves away from zero:
\*   |q| - 1/2 ulp <= |a| / |b| < |q| + 1/2 ulp,  ulp = 10^(-rscale)
IsRoundedQuotient(q, a, b, rscale) ==
    LET F == Max(FracLimbs(a), FracLimbs(b))
        A == Scaled(a, F)
        B == Scaled(b, F)
        Fq == (rscale + DEC_DIGITS - 1) \div DEC_DIGITS
        pad == SmallPow10(DEC_DIGITS * Fq - rscale)
        Qp == Scaled(q, Fq)
        L == BigShift(BigMulSmall(A, 2), Fq)
        M == BigMulSmall(BigMul(Qp, B), 2)
        D == BigMulSmall(B, pad)
    IN  /\ FracLimbs(q) <= Fq
        /\ BigLe(M, BigAdd(L, D))
        /\ BigLt(L, BigAdd(M, D))

\* q is zero or has the sign of a times the sign of b
HasQuotientSign(q, a, b) ==
    q.ndigits = 0
      \/ q.sign = (IF a.sign = b.sign THEN NUMERIC_POS ELSE NUMERIC_NEG)

\* C8: div(a, b), b nonzero, returns a/b rounded half away from zero at
\* rscale decimal places with dscale = rscale, rscale as specified from the
\* weights, first digits and dscales of a and b.
C8_DivRounded ==
    Succeeded("div") =>
        LET rscale == SpecifiedDivScale(call.arg1, call.arg2)
        IN  /\ IsRoundedQuotient(Output, call.arg1, call.arg2, rscale)
            /\ HasQuotientSign(Output, call.arg1, call.arg2)
            /\ Output.dscale = rscale

\* C8 for a nonzero dividend only
C8_DivRoundedNonzero ==
    (Succeeded("div") /\ call.arg1.ndigits # 0) =>
        LET rscale == SpecifiedDivScale(call.arg1, call.arg2)
        IN  /\ IsRoundedQuotient(Output, call.arg1, call.arg2, rscale)
            /\ HasQuotientSign(Output, call.arg1, call.arg2)
            /\ Output.dscale = rscale

\* |q| * |b| <= |a| < (|q| + 1) * |b| for an integer q
IsTruncatedQuotient(q, a, b) ==
    LET F == Max(FracLimbs(a), FracLimbs(b))
        A == Scaled(a, F)
        B == Scaled(b, F)
        QB == BigMul(Scaled(q, 0), B)
    IN  /\ FracLimbs(q) = 0
        /\ BigLe(QB, A)
        /\ BigLt(A, BigAdd(QB, B))

\* C9: div_trunc(a, b), b nonzero, returns the integer q with
\* |q|*|b| <= |a| < (|q|+1)*|b|, zero or of sign sign(a)*sign(b), whatever
\* the number of digits of the divisor.
C9_DivTruncated ==
    Succeeded("div_trunc") =>
        /\ IsTruncatedQuotient(Output, call.arg1, call.arg2)
        /\ HasQuotientSign(Output, call.arg1, call.arg2)

\* a quotient of several digits by a three-digit divisor that needs
\* normalization, found by algorithm D
C9_Witness ==
    /\ Succeeded("div_trunc")
    /\ call.arg2.ndigits = 3
    /\ Digit(call.arg2.digits, 0) < HALF_NBASE
    /\ call.arg1.ndigits >= 3
    /\ Output.ndigits >= 2

\* C10: for b nonzero, div_trunc(a,b)*b + mod(a,b) = a exactly, mod(a,b) is
\* zero or has the sign of a, and |mod(a,b)| < |b|.
C10_DivMod ==
    Succeeded("mod") =>
        LET a == call.arg1
            b == call.arg2
            m == Output
            q == numeric_div_trunc(a, b, numeric_init).result
            F == Max(FracLimbs(a), Max(FracLimbs(b), FracLimbs(m)))
        IN  /\ SignedAdd(SignedMul(SignedScaled(q, 0), SignedScaled(b, F)),
                         SignedScaled(m, F)) = SignedScaled(a, F)
            /\ m.ndigits = 0 \/ m.sign = a.sign
            /\ BigLt(Scaled(m, F), Scaled(b, F))

\* a nonzero remainder of a negative dividend by a multi-digit divisor
C10_Witness ==
    /\ Succeeded("mod")
    /\ call.arg1.sign = NUMERIC_NEG
    /\ call.arg2.ndigits >= 2
    /\ Output.ndigits # 0
    /\ Output.sign = NUMERIC_NEG

(***************************************************************************)
(* Properties of the caller's session                                      *)
(***************************************************************************)
NumericOps ==
    { "abs", "minus", "plus", "sign", "round", "trunc", "ceil", "floor",
      "add", "sub", "mul", "div", "div_trunc", "mod", "min", "max",
      "sqrt", "exp", "ln", "log10", "power" }

\* at least one decimal input of the last call was NaN
NaNInput == NUMERIC_IS_NAN(call.arg1) \/ NUMERIC_IS_NAN(call.arg2)

ReturnedNaN ==
    call.errcode = NUMERIC_ERRCODE_NO_ERROR /\ NUMERIC_IS_NAN(Output)

\* C1 as stated: every unary or binary operation, min included, returns NaN
\* with NO_ERROR when at least one input is NaN.
C1_NaNPropagation ==
    (call.op \in NumericOps /\ NaNInput) => ReturnedNaN

\* C1, amended: every operation but min returns NaN with NO_ERROR when at
\* least one input is NaN; min returns NaN only when both inputs are NaN,
\* and otherwise returns the input that is not NaN.
C1_NaNPropagationExceptMin ==
    /\ (call.op \in NumericOps \ {"min"} /\ NaNInput) => ReturnedNaN
    /\ (call.op = "min" /\ NUMERIC_IS_NAN(call.arg1) /\ NUMERIC_IS_NAN(call.arg2))
         => ReturnedNaN
    /\ (call.op = "min" /\ NUMERIC_IS_NAN(call.arg1) /\ ~NUMERIC_IS_NAN(call.arg2))
         => /\ call.errcode = NUMERIC_ERRCODE_NO_ERROR
            /\ ~NUMERIC_IS_NAN(Output)
            /\ cmp_numerics(Output, call.arg2) = 0
    /\ (call.op = "min" /\ ~NUMERIC_IS_NAN(call.arg1) /\ NUMERIC_IS_NAN(call.arg2))
         => /\ call.errcode = NUMERIC_ERRCODE_NO_ERROR
            /\ ~NUMERIC_IS_NAN(Output)
            /\ cmp_numerics(Output, call.arg1) = 0

\* min of a nonzero number and NaN, in this order
C1_Witness ==
    /\ call.op = "min"
    /\ call.arg1.ndigits # 0
    /\ NUMERIC_IS_NAN(call.arg2)
    /\ Output.ndigits # 0

DivOps == { "div", "div_trunc", "mod" }

IsZero(n) == ~NUMERIC_IS_NAN(n) /\ n.ndigits = 0

\* C2: div, div_trunc and mod return DIVISION_BY_ZERO exactly when the
\* divisor is zero and no operand is NaN; NaN / 0 returns NaN with NO_ERROR;
\* 0 / b for nonzero b returns zero with NO_ERROR.
C2_DivisionByZero ==
    call.op \in DivOps =>
        /\ call.errcode = NUMERIC_ERRCODE_DIVISION_BY_ZERO
             <=> (IsZero(call.arg2) /\ ~NUMERIC_IS_NAN(call.arg1))
        /\ (NUMERIC_IS_NAN(call.arg1) /\ IsZero(call.arg2)) => ReturnedNaN
        /\ (IsZero(call.arg1) /\ ~NUMERIC_IS_NAN(call.arg2) /\ ~IsZero(call.arg2))
             => (call.errcode = NUMERIC_ERRCODE_NO_ERROR /\ IsZero(Output))

\* NaN divided by zero
C2_Witness ==
    /\ call.op = "div"
    /\ NUMERIC_IS_NAN(call.arg1)
    /\ IsZero(call.arg2)
    /\ NUMERIC_IS_NAN(Output)

\* C3: when a call returns an error code other than NO_ERROR, the output
\* decimal is what it was before the call, or a freshly zeroed value.
C3_ErrorLeavesOutput ==
    (call.out # 0 /\ call.errcode # NUMERIC_ERRCODE_NO_ERROR) =>
        \/ Output = call.before
        \/ Output = numeric_init
        \/ Output = zero_var(call.before)

\* C3 for every failing call but the parse of "NaN" followed by junk
C3_ErrorLeavesOutputUnlessNaNText ==
    (/\ call.out # 0
     /\ call.errcode # NUMERIC_ERRCODE_NO_ERROR
     /\ ~(call.op = "from_str" /\ IsNaNPrefix(call.text, SkipSpaces(call.text, 1))))
        => Output = call.before

\* a parse of "NaN" followed by junk fails, into a decimal that held a number
C3_Witness ==
    /\ call.op = "from_str"
    /\ call.errcode = NUMERIC_ERRCODE_INVALID_ARGUMENT
    /\ IsNaNPrefix(call.text, SkipSpaces(call.text, 1))
    /\ call.before.ndigits # 0

\* NaN, canonical zero, or a signed number without leading or trailing zero
\* digit and with every digit in 0 .. NBASE - 1
Normalized(n) ==
    \/ NUMERIC_IS_NAN(n)
    \/ n.ndigits = 0 /\ n.sign = NUMERIC_POS /\ n.weight = 0 /\ n.digits = <<>>
    \/ /\ n.ndigits > 0
       /\ n.sign \in {NUMERIC_POS, NUMERIC_NEG}
       /\ Len(n.digits) = n.ndigits
       /\ \A i \in 0 .. n.ndigits - 1 :
             Digit(n.digits, i) >= 0 /\ Digit(n.digits, i) < NBASE
       /\ Digit(n.digits, 0) # 0
       /\ Digit(n.digits, n.ndigits - 1) # 0

\* C4: every decimal returned with NO_ERROR is NaN, canonical zero, or
\* normalized with sign POS or NEG.
C4_Normalized ==
    (call.out # 0 /\ call.errcode = NUMERIC_ERRCODE_NO_ERROR) => Normalized(Output)

\* a negative number rounded to zero
C4_Witness ==
    /\ call.op = "round"
    /\ call.arg1.sign = NUMERIC_NEG
    /\ call.arg1.ndigits # 0
    /\ IsZero(Output)

\* to_string(x, x.dscale) parsed, with unlimited precision, into a freshly
\* initialized decimal
Reparsed(x) == Parsed(numeric_to_str(x, x.dscale))

ZeroPointZero == <<"0", ".", "0">>

\* C5: every non-NaN decimal x returned with NO_ERROR is structurally equal
\* to the parse of to_string(x, x.dscale); the text "0.0" parses to a decimal
\* that prints back as "0.0".
C5_TextRoundTrip ==
    /\ (call.out # 0 /\ call.errcode = NUMERIC_ERRCODE_NO_ERROR
          /\ ~NUMERIC_IS_NAN(Output)) => Reparsed(Output) = Output
    /\ (call.op = "from_str" /\ call.text = ZeroPointZero
          /\ call.errcode = NUMERIC_ERRCODE_NO_ERROR)
         => numeric_to_str(Output, Output.dscale) = ZeroPointZero

\* C5 for the nonzero decimals returned
C5_TextRoundTripNonzero ==
    (call.out # 0 /\ call.errcode = NUMERIC_ERRCODE_NO_ERROR
       /\ ~NUMERIC_IS_NAN(Output) /\ Output.ndigits # 0)
      => Reparsed(Output) = Output

\* "0.0" parsed into a decimal that held a number of display scale 0
C5_Witness ==
    /\ call.op = "from_str"
    /\ call.text = ZeroPointZero
    /\ call.errcode = NUMERIC_ERRCODE_NO_ERROR
    /\ call.before.dscale = 0
    /\ IsZero(Output)

\* the display scale the last call selects for its result
SelectedScale ==
    CASE call.op \in {"add", "sub"} -> Max(call.arg1.dscale, call.arg2.dscale)
      [] call.op = "mul" -> call.arg1.dscale + call.arg2.dscale
      [] call.op \in {"round", "trunc"} -> call.scale
      [] call.op = "div" -> select_div_scale(call.arg1, call.arg2)
      [] call.op = "sqrt" -> sqrt_rscale(call.arg1)
      [] OTHER -> 0

\* the last call is one whose zero result has a selected display scale
SelectsScale ==
    /\ call.errcode = NUMERIC_ERRCODE_NO_ERROR
    /\ ~NaNInput
    /\ \/ call.op \in {"add", "sub", "mul", "sqrt"}
       \/ call.op \in {"round", "trunc"} /\ call.scale >= 0
       \/ call.op = "div" /\ IsZero(call.arg1)

\* C6: a zero result of add, sub, mul, round, trunc, div or sqrt carries the
\* display scale the operation selected, whatever the output held before;
\* add(1.13, -1.13) prints "0.00".
C6_ZeroScale ==
    (SelectsScale /\ IsZero(Output)) => Output.dscale = SelectedScale

\* 1.13 + (-1.13) into an output of display scale 0
C6_Witness ==
    /\ call.op = "add"
    /\ call.arg1 = Parsed(<<"1", ".", "1", "3">>)
    /\ call.arg2 = Parsed(<<"-", "1", ".", "1", "3">>)
    /\ call.before.dscale = 0
    /\ IsZero(Output)

\* 0 / b for nonzero b, returned with a display scale other than the
\* selected one
C8_Witness ==
    /\ Succeeded("div")
    /\ IsZero(call.arg1)
    /\ ~IsZero(call.arg2)
    /\ IsZero(Output)
    /\ Output.dscale # select_div_scale(call.arg1, call.arg2)

(***************************************************************************)
(* The rounding session: the caller's first decimal holds an operand       *)
(* parsed from UnaryStrings (ties at every scale in Scales, carries out of *)
(* the first stored digit, values below one unit, both signs), and the     *)
(* calls are the operations on one decimal that round or convert it.       *)
(***************************************************************************)
UnaryStrings ==
    { <<"0">>, <<"N", "a", "N">>, <<"0", ".", "5">>, <<"-", "0", ".", "5">>,
      <<"0", ".", "4", "9", "9", "9">>, <<"9", "9", "9", "9", ".", "5">>,
      <<"1", "2", ".", "3", "5", "5">>, <<"-", "1", "2", ".", "3", "5", "5">>,
      <<"-", "0", ".", "0", "1">>, <<"0", ".", "0", "1">>,
      <<"0", ".", "2", "5">>, <<"-", "0", ".", "3", "5">>,
      <<"9", ".", "9", "5">>, <<"9", "9", "9", "9", ".", "9", "5">>,
      <<"9", "9", "9", "5">>, <<"-", "1", "5">>, <<"4">>, <<"5">>,
      <<"-", "3">>, <<"1", "0", "0", "0", "0">>,
      <<"1", "2", "3", "4", "5", "6", "7", "8", "9", ".", "8", "7", "6", "5",
        "4", "3", "2", "1">>,
      <<"-", "9", "9", "9", "9", "9", "9", "9", "9", ".", "9", "9", "9", "9",
        "5">>,
      <<"4", "2", "1", "0", "7", "5", "2">>,
      <<"2", "1", "4", "7", "4", "8", "3", "6", "4", "7">>,
      <<"2", "1", "4", "7", "4", "8", "3", "6", "4", "7", ".", "5">>,
      <<"-", "2", "1", "4", "7", "4", "8", "3", "6", "4", "8", ".", "4">>,
      <<"-", "2", "1", "4", "7", "4", "8", "3", "6", "4", "9">>,
      <<"1", "4", "0", "7", "2", "6", "1", "1", "7", "3", "4", "2", "7", "6",
        "4">>,
      <<"4", "2", "9", "4", "9", "6", "7", "2", "9", "7">> }

UnaryOperands == { Parsed(s) : s \in UnaryStrings }

InitUnary ==
    /\ \E x \in UnaryOperands :
          decimals = [i \in Decimals |-> IF i = 1 THEN x ELSE numeric_init]
    /\ call = NoCall
    /\ str = <<>>
    /\ nops = 0

NextUnary ==
    \/ CallRound
    \/ CallTrunc
    \/ CallRoundWide
    \/ CallTruncWide
    \/ CallCeil
    \/ CallFloor
    \/ CallToInt32
    \/ CallToStrSci

SpecUnary == InitUnary /\ [][NextUnary]_vars

\* 10^(-s) * NBASE^F, for DEC_DIGITS * F >= s
Unit(s, F) ==
    LET e == DEC_DIGITS * F - s
    IN  BigShift(<<SmallPow10(e % DEC_DIGITS)>>, e \div DEC_DIGITS)

\* the natural number a is a multiple of Unit(s, F)
IsMultiple(a, s, F) ==
    LET e == DEC_DIGITS * F - s
        n == e \div DEC_DIGITS
    IN  \/ a = <<>>
        \/ /\ Len(a) > n
           /\ \A i \in 1 .. n : a[i] = 0
           /\ a[n + 1] % SmallPow10(e % DEC_DIGITS) = 0

\* the number of limbs after the point needed to compare r and x at scale s
ScaleLimbs(r, x, s) ==
    Max(Max(FracLimbs(r), FracLimbs(x)),
        IF s > 0 THEN (s + DEC_DIGITS - 1) \div DEC_DIGITS ELSE 0)

\* x has no decimal digit beyond position s
FitsScale(x, s) == s >= DEC_DIGITS * FracLimbs(x)

\* one unit of position s is more than twice any number of x's weight
BelowScale(x, s) == s <= -(DEC_DIGITS * (x.weight + 2))

\* r is zero or has the sign of x
HasSignOf(r, x) == r.ndigits = 0 \/ r.sign = x.sign

\* |r| is the multiple of 10^(-s) nearest to |x|, the larger one at a tie:
\*   2|r| <= 2|x| + u < 2|r| + 2u,  u = 10^(-s)
IsRounded(r, x, s) ==
    IF FitsScale(x, s) THEN SameValue(r, x)
    ELSE IF BelowScale(x, s) THEN r.ndigits = 0
    ELSE LET F == ScaleLimbs(r, x, s)
             R == Scaled(r, F)
             X == Scaled(x, F)
             U == Unit(s, F)
         IN  /\ IsMultiple(R, s, F)
             /\ BigLe(BigMulSmall(R, 2), BigAdd(BigMulSmall(X, 2), U))
             /\ BigLt(BigAdd(BigMulSmall(X, 2), U),
                      BigAdd(BigMulSmall(R, 2), BigMulSmall(U, 2)))
             /\ HasSignOf(r, x)

\* |r| is the largest multiple of 10^(-s) not above |x|
IsTruncated(r, x, s) ==
    IF FitsScale(x, s) THEN SameValue(r, x)
    ELSE IF BelowScale(x, s) THEN r.ndigits = 0
    ELSE LET F == ScaleLimbs(r, x, s)
             R == Scaled(r, F)
             X == Scaled(x, F)
             U == Unit(s, F)
         IN  /\ IsMultiple(R, s, F)
             /\ BigLe(R, X)
             /\ BigLt(X, BigAdd(R, U))
             /\ HasSignOf(r, x)

\* x <= y for signed numbers
SignedLe(x, y) ==
    IF x.neg /\ ~y.neg THEN TRUE
    ELSE IF ~x.neg /\ y.neg THEN FALSE
    ELSE IF x.neg THEN BigLe(y.mag, x.mag)
    ELSE BigLe(x.mag, y.mag)

SignedLt(x, y) == SignedLe(x, y) /\ x # y

SignedOne(F) == Signed(FALSE, BigShift(<<1>>, F))

\* r is the smallest integer not below x: x <= r < x + 1
IsCeiling(r, x) ==
    LET F == FracLimbs(x)
    IN  /\ FracLimbs(r) = 0
        /\ SignedLe(SignedScaled(x, F), SignedScaled(r, F))
        /\ SignedLt(SignedScaled(r, F),
                    SignedAdd(SignedScaled(x, F), SignedOne(F)))

\* r is the largest integer not above x: r <= x < r + 1
IsFloor(r, x) ==
    LET F == FracLimbs(x)
    IN  /\ FracLimbs(r) = 0
        /\ SignedLe(SignedScaled(r, F), SignedScaled(x, F))
        /\ SignedLt(SignedScaled(x, F),
                    SignedAdd(SignedScaled(r, F), SignedOne(F)))

\* C11: round(x, s) for non-NaN x returns x rounded to the nearest multiple
\* of 10^(-s), s clamped to [-2000, 2000], ties away from zero; also when the
\* carry leaves the first stored digit and when every digit is dropped.
C11_Rounded ==
    Succeeded("round") => IsRounded(Output, call.arg1, ClampScale(call.scale))

\* a tie that carries out of the first stored digit, or out of a number
\* whose digits are all dropped
C11_Witness ==
    /\ Succeeded("round")
    /\ Output.weight = call.arg1.weight + 1
    /\ Output.ndigits = 1
    /\ Digit(Output.digits, 0) = 1

\* C12: for non-NaN x, ceil(x) is the smallest integer >= x, floor(x) the
\* largest integer <= x, and trunc(x, s) is x with every decimal digit
\* beyond position s dropped toward zero.
C12_CeilFloorTrunc ==
    /\ Succeeded("ceil") => IsCeiling(Output, call.arg1)
    /\ Succeeded("floor") => IsFloor(Output, call.arg1)
    /\ Succeeded("trunc") =>
         IsTruncated(Output, call.arg1, ClampScale(call.scale))

\* the floor of a negative number that is not an integer
C12_Witness ==
    /\ Succeeded("floor")
    /\ call.arg1.sign = NUMERIC_NEG
    /\ FracLimbs(call.arg1) > 0
    /\ Output.ndigits # 0
    /\ ~SameValue(Output, trunc_var(call.arg1, 0))

(***************************************************************************)
(* The comparison session: the caller's decimals hold operands parsed from *)
(* CmpStrings (NaN, zero, equal values of different display scale, values  *)
(* of equal and of different weight, both signs), and the calls are the    *)
(* comparisons, min and max.                                               *)
(***************************************************************************)
CmpStrings ==
    { <<"0">>, <<"N", "a", "N">>, <<"1", ".", "0">>, <<"1", ".", "0", "0">>,
      <<"-", "1">>, <<"1", ".", "0", "0", "0", "1">>,
      <<"1", "0", "0", "0", "0">>, <<"-", "1", "0", "0", "0", "0", ".", "5">> }

CmpOperands == { Parsed(s) : s \in CmpStrings }

InitCmp ==
    /\ decimals \in [Decimals -> CmpOperands]
    /\ call = NoCall
    /\ str = <<>>
    /\ nops = 0

NextCmp ==
    \/ CallCmp
    \/ CallEq
    \/ CallNe
    \/ CallGt
    \/ CallGe
    \/ CallLt
    \/ CallLe
    \/ CallMin
    \/ CallMax

SpecCmp == InitCmp /\ [][NextCmp]_vars

\* the order of the numbers two non-NaN decimals denote: -1, 0 or 1
ValueOrder(x, y) ==
    LET F == Max(FracLimbs(x), FracLimbs(y))
        X == SignedScaled(x, F)
        Y == SignedScaled(y, F)
    IN  IF X = Y THEN 0 ELSE IF SignedLe(X, Y) THEN -1 ELSE 1

\* the specified order: NaN equal to NaN and above every number
TotalOrder(x, y) ==
    IF NUMERIC_IS_NAN(x) THEN (IF NUMERIC_IS_NAN(y) THEN 0 ELSE 1)
    ELSE IF NUMERIC_IS_NAN(y) THEN -1
    ELSE ValueOrder(x, y)

\* C13: numeric_cmp is a total order over the decimals: it returns -1, 0 or
\* 1, cmp(a,a) = 0, cmp(a,b) = -cmp(b,a), it is transitive, NaN equals NaN
\* and is above every non-NaN, and on non-NaN decimals it is the order of
\* their values whatever their dscale (cmp(1.0, 1.00) = 0).
C13_TotalOrder ==
    /\ \A i \in Decimals, j \in Decimals :
          LET a == decimals[i]
              b == decimals[j]
          IN  /\ numeric_cmp(a, b) \in {-1, 0, 1}
              /\ numeric_cmp(a, a) = 0
              /\ numeric_cmp(a, b) = -numeric_cmp(b, a)
    /\ \A i \in Decimals, j \in Decimals, k \in Decimals :
          LET ab == numeric_cmp(decimals[i], decimals[j])
              bc == numeric_cmp(decimals[j], decimals[k])
              ac == numeric_cmp(decimals[i], decimals[k])
          IN  /\ (ab <= 0 /\ bc <= 0) => ac <= 0
              /\ (ab <= 0 /\ bc < 0) => ac < 0
              /\ (ab < 0 /\ bc <= 0) => ac < 0
    /\ call.op = "cmp" => call.value = TotalOrder(call.arg1, call.arg2)

\* 1.0 compared with 1.00, and a number compared with NaN
C13_Witness ==
    /\ call.op = "cmp"
    /\ call.value = 0
    /\ call.arg1.dscale # call.arg2.dscale
    /\ call.arg1.ndigits # 0
    /\ \E i \in Decimals, j \in Decimals :
          /\ NUMERIC_IS_NAN(decimals[i])
          /\ ~NUMERIC_IS_NAN(decimals[j])
          /\ numeric_cmp(decimals[j], decimals[i]) = -1

\* C14: eq, ne, lt, le, gt, ge answer cmp = 0, # 0, < 0, <= 0, > 0, >= 0;
\* min(a,b) returns a when cmp(a,b) < 0 and b otherwise, max(a,b) returns a
\* when cmp(a,b) > 0 and b otherwise; so min(x, NaN) = min(NaN, x) = x and
\* max(x, NaN) = max(NaN, x) = NaN for non-NaN x.
C14_DerivedComparisons ==
    LET c == numeric_cmp(call.arg1, call.arg2)
        returned(x) == /\ call.errcode = NUMERIC_ERRCODE_NO_ERROR
                       /\ TotalOrder(Output, x) = 0
                       /\ x.ndigits # 0 => Output.dscale = x.dscale
        nan1 == NUMERIC_IS_NAN(call.arg1)
        nan2 == NUMERIC_IS_NAN(call.arg2)
    IN  /\ call.op = "eq" => (call.truth <=> c = 0)
        /\ call.op = "ne" => (call.truth <=> c # 0)
        /\ call.op = "lt" => (call.truth <=> c < 0)
        /\ call.op = "le" => (call.truth <=> c <= 0)
        /\ call.op = "gt" => (call.truth <=> c > 0)
        /\ call.op = "ge" => (call.truth <=> c >= 0)
        /\ call.op = "min" =>
             /\ returned(IF c < 0 THEN call.arg1 ELSE call.arg2)
             /\ (nan1 /\ ~nan2) => TotalOrder(Output, call.arg2) = 0
             /\ (nan2 /\ ~nan1) => TotalOrder(Output, call.arg1) = 0
        /\ call.op = "max" =>
             /\ returned(IF c > 0 THEN call.arg1 ELSE call.arg2)
             /\ (nan1 # nan2) => NUMERIC_IS_NAN(Output)

\* ge answering true for two equal values of different display scale
C14_Witness ==
    /\ call.op = "ge"
    /\ call.truth
    /\ call.arg1.ndigits # 0
    /\ call.arg1.dscale # call.arg2.dscale
    /\ numeric_cmp(call.arg1, call.arg2) = 0

(***************************************************************************)
(* The parsing session: the caller's text buffer holds one of ParseStrings *)
(* (every alternative of the number syntax, each way of leaving it, white  *)
(* space at every position, exponents at and beyond the limit, values that *)
(* fit and do not fit the typmod), and the call is numeric_from_str.       *)
(***************************************************************************)
ParseStrings ==
    { <<>>,
      <<"+">>,
      <<"-">>,
      <<".">>,
      <<"1">>,
      <<"+", "1">>,
      <<"-", "1">>,
      <<"1", ".">>,
      <<".", "5">>,
      <<"+", ".", "5">>,
      <<"-", "1", ".", "5">>,
      <<"1", ".", "2", ".", "3">>,
      <<"1", "e", "5">>,
      <<"1", "E", "5">>,
      <<"1", "e", "+", "5">>,
      <<"1", "e", "-", "5">>,
      <<"1", "e">>,
      <<"1", "e", "+">>,
      <<"e", "5">>,
      <<".", "e", "5">>,
      <<"1", ".", "e", "5">>,
      <<"1", "e", "1", "0", "0", "0">>,
      <<"1", "e", "1", "0", "0", "1">>,
      <<"1", "e", "-", "1", "0", "0", "0">>,
      <<"1", "e", "-", "1", "0", "0", "1">>,
      <<"1", " ", "2">>,
      <<" ", "1", " ">>,
      <<"\t", "1", "\n">>,
      <<"1", "x">>,
      <<"1", "e", "5", "x">>,
      <<"-", " ", "1">>,
      <<"1", "e", " ", "5">>,
      <<"1", "e", " ", "-", "5">>,
      <<"1", " ", "e", "5">>,
      <<"1", ".", " ", "5">>,
      <<"N", "a", "N">>,
      <<"n", "a", "n">>,
      <<" ", "N", "A", "N", " ">>,
      <<"+", "N", "a", "N">>,
      <<"N", "a">>,
      <<"N", "a", "N", " ", "1">>,
      <<"9", "9", ".", "9", "9", "5">>,
      <<"-", "9", "9", ".", "9", "9", "4">>,
      <<"0", ".", "0", "0", "4">>,
      <<"1", "0", "0">>,
      <<"0", ".", "5">> }

InitParse ==
    /\ decimals = [i \in Decimals |-> numeric_init]
    /\ call = NoCall
    /\ str \in ParseStrings
    /\ nops = 0

NextParse == CallFromStr \/ CallFromStrTypmod

SpecParse == InitParse /\ [][NextParse]_vars

\* the text without its leading and trailing white space
RECURSIVE Trim(_)
Trim(s) ==
    IF s = <<>> THEN s
    ELSE IF isspace(Head(s)) THEN Trim(Tail(s))
    ELSE IF isspace(s[Len(s)]) THEN Trim(SubSeq(s, 1, Len(s) - 1))
    ELSE s

\* the position after the digits of t that start at position p
RECURSIVE DigitsEnd(_, _)
DigitsEnd(t, p) ==
    IF p <= Len(t) /\ isdigit(t[p]) THEN DigitsEnd(t, p + 1) ELSE p

AfterSign(t, p) == IF p <= Len(t) /\ t[p] \in {"+", "-"} THEN p + 1 ELSE p

\* the position after  skipped white space
RECURSIVE AfterSpaces(_, _)
AfterSpaces(t, p) ==
    IF p <= Len(t) /\ isspace(t[p]) THEN AfterSpaces(t, p + 1) ELSE p

\* the number the digits t[p .. q-1] denote, or ExponentLimit + 1 when larger
RECURSIVE Magnitude(_, _, _, _)
Magnitude(t, p, q, acc) ==
    IF p >= q THEN acc
    ELSE Magnitude(t, p + 1, q,
                   Min(acc * 10 + DecValue(t[p]), NUMERIC_MAX_PRECISION + 1))

\* the position after  digit+ ('.' digit*)? | '.' digit+  at p, or 0
MantissaEnd(t, p) ==
    LET d == DigitsEnd(t, p)
    IN  IF d > p
        THEN (IF d <= Len(t) /\ t[d] = "." THEN DigitsEnd(t, d + 1) ELSE d)
        ELSE IF p <= Len(t) /\ t[p] = "." /\ DigitsEnd(t, p + 1) > p + 1
        THEN DigitsEnd(t, p + 1)
        ELSE 0

\* t[m ..] is empty or  [eE][+-]?digit+  of magnitude <= 1000 up to the end
\* of t; spaced says whether white space may follow the e
ExponentOk(t, m, spaced) ==
    \/ m = Len(t) + 1
    \/ /\ m <= Len(t)
       /\ t[m] \in {"e", "E"}
       /\ LET q == AfterSign(t, IF spaced THEN AfterSpaces(t, m + 1) ELSE m + 1)
              e == DigitsEnd(t, q)
          IN  /\ e > q
              /\ e = Len(t) + 1
              /\ Magnitude(t, q, e, 0) <= NUMERIC_MAX_PRECISION

IsNaNToken(t) ==
    /\ Len(t) = 3
    /\ t[1] \in {"n", "N"}
    /\ t[2] \in {"a", "A"}
    /\ t[3] \in {"n", "N"}

\* the specified syntax:
\*   [+-]? (digit+ ('.' digit*)? | '.' digit+) ([eE][+-]?digit+)? | NaN
IsNumberText(s, spaced) ==
    LET t == Trim(s)
        m == MantissaEnd(t, AfterSign(t, 1))
    IN  IsNaNToken(t) \/ (m # 0 /\ ExponentOk(t, m, spaced))

\* C15: numeric_from_str with precision -1 returns NO_ERROR exactly for the
\* texts that, trimmed of white space at both ends, are a number of the
\* specified syntax with exponent magnitude <= 1000 or the token NaN in any
\* case; every other text returns INVALID_ARGUMENT.
C15_ParseSyntax ==
    (call.op = "from_str" /\ call.precision < 0) =>
        /\ IsNumberText(call.text, FALSE)
             => call.errcode = NUMERIC_ERRCODE_NO_ERROR
        /\ ~IsNumberText(call.text, FALSE)
             => call.errcode = NUMERIC_ERRCODE_INVALID_ARGUMENT

\* C15 with white space admitted between the e and the exponent
C15_ParseSyntaxSpacedExponent ==
    (call.op = "from_str" /\ call.precision < 0) =>
        /\ IsNumberText(call.text, TRUE)
             => call.errcode = NUMERIC_ERRCODE_NO_ERROR
        /\ ~IsNumberText(call.text, TRUE)
             => call.errcode = NUMERIC_ERRCODE_INVALID_ARGUMENT

\* a text with white space inside the number, parsed without error
C15_Witness ==
    /\ call.op = "from_str"
    /\ call.precision < 0
    /\ call.errcode = NUMERIC_ERRCODE_NO_ERROR
    /\ ~IsNumberText(call.text, FALSE)
    /\ Output.ndigits # 0

\* v rounded to scale decimal places has at most precision - scale decimal
\* digits before the point:  2|v| + 10^(-scale) < 2 * 10^(precision - scale)
FitsTypmod(v, precision, scale) ==
    LET F == Max(FracLimbs(v), (scale + DEC_DIGITS - 1) \div DEC_DIGITS)
    IN  BigLt(BigAdd(BigMulSmall(Scaled(v, F), 2), Unit(scale, F)),
              BigMulSmall(Unit(scale - precision, F), 2))

\* the last call parsed the text of a number under a typmod
ParsedWithTypmod ==
    /\ call.op = "from_str"
    /\ call.precision >= 0
    /\ IsNumberText(call.text, TRUE)
    /\ ~IsNaNToken(Trim(call.text))

\* C16: numeric_from_str with precision >= 0 rounds the parsed value to
\* scale decimal places, then returns VALUE_OUT_OF_RANGE when the rounded
\* value has more than precision - scale decimal digits before the point,
\* and otherwise returns the rounded value with dscale = scale.
C16_TypmodApplied ==
    ParsedWithTypmod =>
        LET v == Parsed(call.text)
        IN  IF FitsTypmod(v, call.precision, call.scale)
            THEN /\ call.errcode = NUMERIC_ERRCODE_NO_ERROR
                 /\ IsRounded(Output, v, call.scale)
                 /\ Output.dscale = call.scale
            ELSE call.errcode = NUMERIC_ERRCODE_NUMERIC_VALUE_OUT_OF_RANGE

\* C16 without the range test, for the nonzero rounded values
C16_TypmodRoundsOnly ==
    ParsedWithTypmod =>
        LET v == Parsed(call.text)
        IN  /\ call.errcode = NUMERIC_ERRCODE_NO_ERROR
            /\ IsRounded(Output, v, call.scale)
            /\ Output.ndigits # 0 => Output.dscale = call.scale

\* a value that rounds up to one digit too many for the typmod, returned
\* without error
C16_Witness ==
    /\ ParsedWithTypmod
    /\ FitsTypmod(trunc_var(Parsed(call.text), call.scale),
                  call.precision, call.scale)
    /\ ~FitsTypmod(Parsed(call.text), call.precision, call.scale)
    /\ call.errcode = NUMERIC_ERRCODE_NO_ERROR
    /\ Output.ndigits # 0

\* the int32_t n as a signed number
RECURSIVE IntLimbs(_)
IntLimbs(n) == IF n = 0 THEN <<>> ELSE <<n % NBASE>> \o IntLimbs(n \div NBASE)

IntToSigned(n) ==
    IF n >= 0 THEN Signed(FALSE, IntLimbs(n))
    ELSE Signed(TRUE, BigAdd(IntLimbs(-(n + 1)), <<1>>))

Int32Min == Signed(TRUE, <<3648, 4748, 21>>)
Int32Max == Signed(FALSE, <<3647, 4748, 21>>)

\* x rounded to the nearest integer, ties away from zero
NearestInteger(x) == SignedScaled(numeric_round(x, 0, numeric_init).result, 0)

InInt32Range(n) == SignedLe(Int32Min, n) /\ SignedLe(n, Int32Max)

\* C17: numeric_to_int32(x) for non-NaN x returns NO_ERROR with x rounded to
\* the nearest integer (ties away from zero) when that integer is in
\* [-2^31, 2^31 - 1], and VALUE_OUT_OF_RANGE exactly when it is not.
C17_ToInt32 ==
    (call.op = "to_int32" /\ ~NUMERIC_IS_NAN(call.arg1)) =>
        IF InInt32Range(NearestInteger(call.arg1))
        THEN /\ call.errcode = NUMERIC_ERRCODE_NO_ERROR
             /\ IntToSigned(call.value) = NearestInteger(call.arg1)
        ELSE call.errcode = NUMERIC_ERRCODE_NUMERIC_VALUE_OUT_OF_RANGE

\* what numeric_to_int32 does: it stores the nearest integer narrowed to 32
\* bits, and returns NO_ERROR exactly when the 64-bit nearest integer equals
\* the address it was given
C17_ToInt32ByAddress ==
    (call.op = "to_int32" /\ ~NUMERIC_IS_NAN(call.arg1)) =>
        /\ call.errcode = NUMERIC_ERRCODE_NO_ERROR
             <=> NearestInteger(call.arg1) = call.address
        /\ call.errcode # NUMERIC_ERRCODE_NO_ERROR
             => call.errcode = NUMERIC_ERRCODE_NUMERIC_VALUE_OUT_OF_RANGE
        /\ InInt32Range(NearestInteger(call.arg1))
             => IntToSigned(call.value) = NearestInteger(call.arg1)

\* a number that rounds to an integer within the int32 range, stored and
\* yet reported out of range
C17_Witness ==
    /\ call.op = "to_int32"
    /\ ~NUMERIC_IS_NAN(call.arg1)
    /\ InInt32Range(NearestInteger(call.arg1))
    /\ call.value # 0
    /\ IntToSigned(call.value) = NearestInteger(call.arg1)
    /\ call.errcode = NUMERIC_ERRCODE_NUMERIC_VALUE_OUT_OF_RANGE

\* t is  [-]d.ddd...e(+|-)NN  with one digit before the point, exactly s
\* digits after it and at least two exponent digits
HasSciForm(t, s) ==
    LET b == IF t # <<>> /\ t[1] = "-" THEN 2 ELSE 1
    IN  /\ Len(t) >= b + s + 5
        /\ isdigit(t[b])
        /\ t[b + 1] = "."
        /\ \A i \in b + 2 .. b + 1 + s : isdigit(t[i])
        /\ t[b + 2 + s] = "e"
        /\ t[b + 3 + s] \in {"+", "-"}
        /\ \A i \in b + 4 + s .. Len(t) : isdigit(t[i])

\* the digit of t before the point is zero
HasZeroLead(t) ==
    LET b == IF t # <<>> /\ t[1] = "-" THEN 2 ELSE 1
    IN  b <= Len(t) /\ t[b] = "0"

\* t without its first digit
WithoutLead(t) ==
    IF t # <<>> /\ t[1] = "-" THEN <<"-">> \o SubSeq(t, 3, Len(t)) ELSE Tail(t)

\* E with 10^E <= |x| < 10^(E+1), for x nonzero; 0 for zero
DecimalExponent(x) ==
    IF x.ndigits = 0 THEN 0
    ELSE DEC_DIGITS * x.weight + log10(Digit(x.digits, 0))

\* the text denotes x rounded to s + 1 significant digits
DenotesRounded(t, x, s) ==
    IsRounded(Parsed(t), x, s - DecimalExponent(x))

\* the last call printed a non-NaN decimal in scientific notation with at
\* least one digit after the point
PrintedSci ==
    /\ call.op = "to_str_sci"
    /\ ~NUMERIC_IS_NAN(call.arg1)
    /\ call.scale >= 1

\* C18: numeric_to_str_sci(x, s) for non-NaN x and s >= 1 returns
\* [-]d.ddd...e(+|-)NN with one digit before the point (nonzero unless x is
\* zero), exactly s digits after it and a signed exponent of at least two
\* digits, denoting x rounded to s + 1 significant digits; also when the
\* rounding carries into a new leading digit.
C18_SciNotation ==
    PrintedSci =>
        /\ HasSciForm(str, call.scale)
        /\ HasZeroLead(str) <=> call.arg1.ndigits = 0
        /\ DenotesRounded(str, call.arg1, call.scale)

\* the rounding of x to s + 1 significant digits carries into a new leading
\* digit: 2|x| + u >= 2 * 10^(E+1), u = 10^(E-s)
RoundingCarries(x, s) ==
    /\ x.ndigits # 0
    /\ LET E == DecimalExponent(x)
           F == Max(FracLimbs(x), Max(0, (s - E + DEC_DIGITS - 1) \div DEC_DIGITS))
       IN  BigLe(BigMulSmall(Unit(-(E + 1), F), 2),
                 BigAdd(BigMulSmall(Scaled(x, F), 2), Unit(s - E, F)))

\* C18 for the calls whose rounding does not carry; with a carry the text
\* has two digits before the point and still denotes the rounded value
C18_SciNotationUnlessCarry ==
    PrintedSci =>
        /\ DenotesRounded(str, call.arg1, call.scale)
        /\ ~RoundingCarries(call.arg1, call.scale) =>
             /\ HasSciForm(str, call.scale)
             /\ HasZeroLead(str) <=> call.arg1.ndigits = 0
        /\ RoundingCarries(call.arg1, call.scale) =>
             /\ ~HasSciForm(str, call.scale)
             /\ HasSciForm(WithoutLead(str), call.scale)

\* a significand that rounds up to 10, printed with two digits before the
\* point
C18_Witness ==
    /\ PrintedSci
    /\ RoundingCarries(call.arg1, call.scale)
    /\ SubSeq(str, 1, 3) = <<"1", "0", ".">>

(***************************************************************************)
(* The power session: two of the caller's decimals hold operands of        *)
(* numeric_power and the calls are numeric_power.                          *)
(***************************************************************************)
PowerStrings ==
    { <<"0">>,
      <<"0", ".", "0", "0">>,
      <<"1">>,
      <<"2">>,
      <<"3">>,
      <<"5">>,
      <<"2", ".", "0">>,
      <<"-", "1">>,
      <<"-", "2">>,
      <<"-", "3">>,
      <<"-", "2", ".", "5">>,
      <<"0", ".", "5">>,
      <<"0", ".", "0", "0", "0", "0", "1">>,
      <<"-", "5">>,
      <<"-", "0", ".", "5">>,
      <<"1", ".", "5">>,
      <<"1", "0", "0", "0", "0", "0", "0", "0", "0", "0", "0">>,
      <<"-", "1", "0", "0", "0", "0", "0", "0", "0", "0", "0", "0">>,
      <<"N", "a", "N">> }

PowerOperands == { Parsed(s) : s \in PowerStrings }

InitPower ==
    /\ \E x \in PowerOperands : \E y \in PowerOperands :
          decimals = [i \in Decimals |->
                        IF i = 1 THEN x ELSE IF i = 2 THEN y ELSE numeric_init]
    /\ call = NoCall
    /\ str = <<>>
    /\ nops = 0

NextPower == CallPower

SpecPower == InitPower /\ [][NextPower]_vars

\* the numbers a decimal can denote, by sign and integrality
DenotesZero(x) == Scaled(x, FracLimbs(x)) = <<>>

DenotesNegative(x) == ~DenotesZero(x) /\ x.sign = NUMERIC_NEG

DenotesPositive(x) == ~DenotesZero(x) /\ x.sign = NUMERIC_POS

DenotesInteger(x) == IsMultiple(Scaled(x, FracLimbs(x)), 0, FracLimbs(x))

\* the last call raised a number to a number
PowerOfNumbers ==
    /\ call.op = "power"
    /\ ~NUMERIC_IS_NAN(call.arg1)
    /\ ~NUMERIC_IS_NAN(call.arg2)

\* 0^negative or negative^non-integer
PowerUndefined ==
    \/ DenotesZero(call.arg1) /\ DenotesNegative(call.arg2)
    \/ DenotesNegative(call.arg1) /\ ~DenotesInteger(call.arg2)

\* power(0, 0) = 1 and power(0, positive) = 0
PowerOfZero ==
    /\ DenotesZero(call.arg1) /\ DenotesZero(call.arg2)
         => /\ call.errcode = NUMERIC_ERRCODE_NO_ERROR
            /\ SameValue(Output, const_one)
    /\ DenotesZero(call.arg1) /\ DenotesPositive(call.arg2)
         => /\ call.errcode = NUMERIC_ERRCODE_NO_ERROR
            /\ ~NUMERIC_IS_NAN(Output)
            /\ DenotesZero(Output)

\* C19: numeric_power of two numbers returns INVALID_ARGUMENT if and only if
\* the base is zero and the exponent negative, or the base is negative and
\* the exponent is not an integer; power(0, 0) is 1 and power(0, positive)
\* is 0.
C19_PowerInvalidArgument ==
    PowerOfNumbers
      => /\ call.errcode = NUMERIC_ERRCODE_INVALID_ARGUMENT <=> PowerUndefined
         /\ PowerOfZero

\* a negative base raised to an integer that an int does not hold
NegativeToWideInteger ==
    /\ DenotesNegative(call.arg1)
    /\ DenotesInteger(call.arg2)
    /\ ~InInt32Range(SignedScaled(call.arg2, 0))

\* what numeric_power does: a negative base is also rejected when the
\* exponent is an integer outside the range of int
C19_PowerInvalidArgumentWideInteger ==
    PowerOfNumbers
      => /\ call.errcode = NUMERIC_ERRCODE_INVALID_ARGUMENT
              <=> PowerUndefined \/ NegativeToWideInteger
         /\ PowerOfZero

\* a negative base with an integer exponent rejected as an invalid argument
C19_Witness ==
    /\ PowerOfNumbers
    /\ DenotesNegative(call.arg1)
    /\ DenotesInteger(call.arg2)
    /\ call.errcode = NUMERIC_ERRCODE_INVALID_ARGUMENT

(***************************************************************************)
(* The aliasing session: every call is a binary operation whose result     *)
(* argument is one of its inputs, or both.                                 *)
(***************************************************************************)
AliasStrings ==
    { <<"0">>, <<"N", "a", "N">>,
      <<"1", ".", "1", "3">>, <<"-", "1", ".", "1", "3">>, <<"2">>,
      <<"3">>, <<"-", "0", ".", "5">> }

AliasOperands == { Parsed(s) : s \in AliasStrings }

InitAlias ==
    /\ \E x \in AliasOperands : \E y \in AliasOperands :
          decimals = [i \in Decimals |->
                        IF i = 1 THEN x ELSE IF i = 2 THEN y ELSE numeric_init]
    /\ call = NoCall
    /\ str = <<>>
    /\ nops = 0

NextAlias ==
    \/ CallAddAliased
    \/ CallSubAliased
    \/ CallMulAliased
    \/ CallDivAliased
    \/ CallDivTruncAliased
    \/ CallModAliased
    \/ CallMinAliased
    \/ CallMaxAliased
    \/ CallPowerAliased

SpecAlias == InitAlias /\ [][NextAlias]_vars

\* what the operation returns into a distinct, freshly initialised result
FreshResult(op, num1, num2) ==
    CASE op = "add" -> numeric_add(num1, num2, numeric_init)
      [] op = "sub" -> numeric_sub(num1, num2, numeric_init)
      [] op = "mul" -> numeric_mul(num1, num2, numeric_init)
      [] op = "div" -> numeric_div(num1, num2, numeric_init)
      [] op = "div_trunc" -> numeric_div_trunc(num1, num2, numeric_init)
      [] op = "mod" -> numeric_mod(num1, num2, numeric_init)
      [] op = "min" -> numeric_min(num1, num2, numeric_init)
      [] op = "max" -> numeric_max(num1, num2, numeric_init)
      [] op = "power" -> numeric_power(num1, num2, numeric_init)

\* the last call's result argument was one of its inputs
AliasedCall == call.alias # {}

\* a digit of a buffer is read after the buffer was freed
ReadAfterFree(events) ==
    \E i \in DOMAIN events : \E j \in DOMAIN events :
        /\ i < j
        /\ events[i][1] = "free"
        /\ events[j][1] = "read"
        /\ events[i][2] = events[j][2]

\* the buffers the last call touched; an input that is the result argument
\* has its digits in the result's buffer
CallBuffers ==
    binary_buffers(call.op, call.arg1, call.arg2,
                   IF 1 \in call.alias THEN "result" ELSE "num1",
                   IF 2 \in call.alias THEN "result" ELSE "num2", "result")

\* C20: a binary operation whose result argument is one of its inputs, or
\* both, returns the error code and the decimal it returns into a distinct,
\* freshly initialised result, and reads no digit buffer after freeing it.
C20_AliasedResult ==
    AliasedCall
      => LET fresh == FreshResult(call.op, call.arg1, call.arg2)
         IN  /\ call.errcode = fresh.errcode
             /\ call.errcode = NUMERIC_ERRCODE_NO_ERROR
                  => Output = fresh.result
             /\ ~ReadAfterFree(CallBuffers)

\* what the operations do: the same error code, the same number, the same
\* decimal unless it is zero, and no digit buffer read after it is freed
C20_AliasedResultUnlessZero ==
    AliasedCall
      => LET fresh == FreshResult(call.op, call.arg1, call.arg2)
         IN  /\ call.errcode = fresh.errcode
             /\ call.errcode = NUMERIC_ERRCODE_NO_ERROR
                  => /\ NUMERIC_IS_NAN(Output) <=> NUMERIC_IS_NAN(fresh.result)
                     /\ ~NUMERIC_IS_NAN(Output)
                          => SameValue(Output, fresh.result)
                     /\ ~NUMERIC_IS_ZERO(Output) => Output = fresh.result
             /\ ~ReadAfterFree(CallBuffers)

\* add(1.13, -1.13) returned into its first input: a zero that keeps the
\* input's display scale, where a fresh result has display scale 0
C20_Witness ==
    /\ AliasedCall
    /\ call.op = "add"
    /\ call.alias = {1}
    /\ call.errcode = NUMERIC_ERRCODE_NO_ERROR
    /\ call.arg1.dscale = 2
    /\ NUMERIC_IS_ZERO(Output)
    /\ Output.dscale = 2
    /\ FreshResult(call.op, call.arg1, call.arg2).result.dscale = 0

(***************************************************************************)
(* The printing session: the caller's first decimal holds a parsed value   *)
(* (negative values that round to zero among them) and the calls are       *)
(* numeric_to_str.                                                         *)
(***************************************************************************)
PrintStrings ==
    { <<"0">>, <<"-", "0", ".", "0", "0", "1">>, <<"0", ".", "0", "0", "1">>,
      <<"-", "0", ".", "0", "0", "4", "9">>, <<"-", "0", ".", "0", "0", "5">>,
      <<"-", "0", ".", "4">>, <<"-", "0", ".", "5">>,
      <<"1", ".", "1", "3">>, <<"-", "1", ".", "1", "3">>,
      <<"-", "1", "2", ".", "3", "4", "5">>, <<"9", "9", ".", "9", "9", "5">>,
      <<"-", "1", "2", "3", "4", "5", ".", "6", "7", "8">>,
      <<"N", "a", "N">> }

PrintOperands == { Parsed(s) : s \in PrintStrings }

InitPrint ==
    /\ \E x \in PrintOperands :
          decimals = [i \in Decimals |-> IF i = 1 THEN x ELSE numeric_init]
    /\ call = NoCall
    /\ str = <<>>
    /\ nops = 0

NextPrint == CallToStr

SpecPrint == InitPrint /\ [][NextPrint]_vars

\* the number of characters a text has after its decimal point
PrintedFraction(t) ==
    IF \E p \in 1 .. Len(t) : t[p] = "."
    THEN Len(t) - (CHOOSE p \in 1 .. Len(t) : t[p] = ".")
    ELSE 0

\* every digit the text shows is 0
PrintsZeroes(t) == \A p \in 1 .. Len(t) : t[p] \in {"-", ".", "0"}

WithoutDash(t) == IF Len(t) > 0 /\ t[1] = "-" THEN SubSeq(t, 2, Len(t)) ELSE t

\* numeric_to_str printed a number at a scale the caller gave
PrintedFixed ==
    /\ call.op = "to_str"
    /\ ~NUMERIC_IS_NAN(call.arg1)
    /\ call.scale >= 0

\* the text of round(x, s) printed at scale s
RoundedText(x, s) == numeric_to_str(numeric_round(x, s, numeric_init).result, s)

\* C30: to_string(x, s) prints exactly s fractional digits, prints no minus
\* sign in front of digits that are all zero, and gives the text that
\* printing round(x, s) at scale s gives.
C30_FixedText ==
    PrintedFixed
      => /\ PrintedFraction(str) = call.scale
         /\ PrintsZeroes(str) => str[1] # "-"
         /\ str = RoundedText(call.arg1, call.scale)

\* what numeric_to_str does: exactly s fractional digits, and the text of
\* round(x, s) but for the minus sign it keeps in front of zeroes
C30_FixedTextUpToSign ==
    PrintedFixed
      => /\ PrintedFraction(str) = call.scale
         /\ WithoutDash(str) = WithoutDash(RoundedText(call.arg1, call.scale))
         /\ ~PrintsZeroes(str) => str = RoundedText(call.arg1, call.scale)

\* -0.001 printed at scale 2: "-0.00", where round(-0.001, 2) prints "0.00"
C30_Witness ==
    /\ PrintedFixed
    /\ call.arg1 = Parsed(<<"-", "0", ".", "0", "0", "1">>)
    /\ call.scale = 2
    /\ str = <<"-", "0", ".", "0", "0">>
    /\ RoundedText(call.arg1, call.scale) = <<"0", ".", "0", "0">>

(***************************************************************************)
(* Unary operations whose result argument is their input.  make_result     *)
(* copies the digits before it frees result->buf, and every operation but  *)
(* abs, minus and sign computes from a local copy of *num; minus and sign  *)
(* read *num again after make_result has stored into *result, which is    *)
(* then the same object.                                                   *)
(***************************************************************************)
\* numeric_minus(num, num): NUMERIC_IS_ZERO(num) and NUMERIC_SIGN(num) read
\* what make_result stored
numeric_minus_aliased(num) ==
    CHOOSE ret \in
      { IF made.errcode # NUMERIC_ERRCODE_NO_ERROR THEN made
        ELSE IF ~NUMERIC_IS_ZERO(made.result)
        THEN Return(NUMERIC_ERRCODE_NO_ERROR,
                    SetSign(made.result,
                            IF made.result.sign = NUMERIC_POS
                            THEN NUMERIC_NEG ELSE NUMERIC_POS))
        ELSE made :
          made \in {IF NUMERIC_IS_NAN(num) THEN make_result(const_nan, num)
                    ELSE make_result(num, num)} } : TRUE

\* numeric_sign(num, num): NUMERIC_SIGN(num) reads the sign of the copy of
\* const_one that make_result stored
numeric_sign_aliased(num) ==
    IF NUMERIC_IS_NAN(num) THEN make_result(const_nan, num)
    ELSE IF NUMERIC_IS_ZERO(num) THEN make_result(const_zero, num)
    ELSE CHOOSE ret \in
           { IF made.errcode # NUMERIC_ERRCODE_NO_ERROR THEN made
             ELSE Return(NUMERIC_ERRCODE_NO_ERROR,
                         SetSign(made.result, made.result.sign)) :
               made \in {make_result(const_one, num)} } : TRUE

UnaryOps ==
    {"abs", "minus", "plus", "sign", "round", "trunc", "ceil", "floor",
     "sqrt", "exp", "ln", "log10"}

UnaryCovered(op, num) ==
    CASE op = "sqrt" -> numeric_sqrtCovered(num)
      [] op = "exp" -> numeric_expCovered(num)
      [] op = "ln" -> numeric_lnCovered(num)
      [] op = "log10" -> numeric_log10Covered(num)
      [] OTHER -> TRUE

\* the operation called with a result argument that is not its input
UnaryResult(op, num, scale, result) ==
    CASE op = "abs" -> numeric_abs(num, result)
      [] op = "minus" -> numeric_minus(num, result)
      [] op = "plus" -> numeric_plus(num, result)
      [] op = "sign" -> numeric_sign(num, result)
      [] op = "round" -> numeric_round(num, scale, result)
      [] op = "trunc" -> numeric_trunc(num, scale, result)
      [] op = "ceil" -> numeric_ceil(num, result)
      [] op = "floor" -> numeric_floor(num, result)
      [] op = "sqrt" -> numeric_sqrt(num, result)
      [] op = "exp" -> numeric_exp(num, result)
      [] op = "ln" -> numeric_ln(num, result)
      [] op = "log10" -> numeric_log10(num, result)

\* the operation called with its input as the result argument
UnaryAliasedResult(op, num, scale) ==
    IF op = "minus" THEN numeric_minus_aliased(num)
    ELSE IF op = "sign" THEN numeric_sign_aliased(num)
    ELSE UnaryResult(op, num, scale, num)

UnaryAliased(op, scales) ==
    \E i \in Decimals, scale \in scales :
        /\ nops < MaxOps
        /\ UnaryCovered(op, decimals[i])
        /\ \E ret \in {UnaryAliasedResult(op, decimals[i], scale)} :
            /\ decimals' = [decimals EXCEPT ![i] = ret.result]
            /\ call' = [op |-> op, arg1 |-> decimals[i], arg2 |-> numeric_init,
                        out |-> i, before |-> decimals[i],
                        errcode |-> ret.errcode, scale |-> scale,
                        text |-> <<>>, precision |-> -1, value |-> 0,
                        truth |-> FALSE, address |-> NULL,
                        int64 |-> <<>>, alias |-> {1}]
            /\ nops' = nops + 1
            /\ UNCHANGED str

CallAbsAliased == UnaryAliased("abs", {0})

CallMinusAliased == UnaryAliased("minus", {0})

CallPlusAliased == UnaryAliased("plus", {0})

CallSignAliased == UnaryAliased("sign", {0})

CallRoundAliased == UnaryAliased("round", Scales)

CallTruncAliased == UnaryAliased("trunc", Scales)

CallCeilAliased == UnaryAliased("ceil", {0})

CallFloorAliased == UnaryAliased("floor", {0})

CallSqrtAliased == UnaryAliased("sqrt", {0})

CallExpAliased == UnaryAliased("exp", {0})

CallLnAliased == UnaryAliased("ln", {0})

CallLog10Aliased == UnaryAliased("log10", {0})

UnaryAliasStrings ==
    { <<"0">>, <<"N", "a", "N">>, <<"1", ".", "1", "3">>,
      <<"-", "1", ".", "1", "3">>, <<"-", "5">>, <<"0", ".", "4">>,
      <<"-", "0", ".", "5">>, <<"9", "9", "9", "9", ".", "5">>,
      <<"-", "1", "2", "3", "4", "5", ".", "6", "7", "8">> }

UnaryAliasOperands == { Parsed(s) : s \in UnaryAliasStrings }

InitUnaryAlias ==
    /\ \E x \in UnaryAliasOperands :
          decimals = [i \in Decimals |-> IF i = 1 THEN x ELSE numeric_init]
    /\ call = NoCall
    /\ str = <<>>
    /\ nops = 0

NextUnaryAlias ==
    \/ CallAbsAliased
    \/ CallMinusAliased
    \/ CallPlusAliased
    \/ CallSignAliased
    \/ CallRoundAliased
    \/ CallTruncAliased
    \/ CallCeilAliased
    \/ CallFloorAliased
    \/ CallSqrtAliased
    \/ CallExpAliased
    \/ CallLnAliased
    \/ CallLog10Aliased

SpecUnaryAlias == InitUnaryAlias /\ [][NextUnaryAlias]_vars

\* the last call was a unary operation writing over its input
UnaryAliasedCall == call.op \in UnaryOps /\ call.alias = {1}

FreshUnary == UnaryResult(call.op, call.arg1, call.scale, numeric_init)

\* C29: a unary operation whose result argument is its input returns the
\* error code and the decimal it returns into a distinct result; sign over
\* a negative input yields -1 and minus over its input flips the sign.
C29_UnaryAliased ==
    UnaryAliasedCall
      => /\ call.errcode = FreshUnary.errcode
         /\ call.errcode = NUMERIC_ERRCODE_NO_ERROR
              => Output = FreshUnary.result
         /\ call.op = "sign" /\ DenotesNegative(call.arg1)
              => Output = SetSign(const_one, NUMERIC_NEG)
         /\ call.op = "minus" /\ DenotesPositive(call.arg1)
              => DenotesNegative(Output)
         /\ call.op = "minus" /\ DenotesNegative(call.arg1)
              => DenotesPositive(Output)

\* what the operations do: but for sign, the same error code and the same
\* number, the same decimal unless it is zero
C29_UnaryAliasedUnlessSign ==
    UnaryAliasedCall /\ call.op # "sign"
      => /\ call.errcode = FreshUnary.errcode
         /\ call.errcode = NUMERIC_ERRCODE_NO_ERROR
              => /\ NUMERIC_IS_NAN(Output) <=> NUMERIC_IS_NAN(FreshUnary.result)
                 /\ ~NUMERIC_IS_NAN(Output)
                      => SameValue(Output, FreshUnary.result)
                 /\ ~NUMERIC_IS_ZERO(Output) => Output = FreshUnary.result
         /\ call.op = "minus" /\ DenotesPositive(call.arg1)
              => DenotesNegative(Output)
         /\ call.op = "minus" /\ DenotesNegative(call.arg1)
              => DenotesPositive(Output)

\* sign written over -5: the decimal holds 1, where a distinct result
\* receives -1
C29_Witness ==
    /\ UnaryAliasedCall
    /\ call.op = "sign"
    /\ call.arg1 = Parsed(<<"-", "5">>)
    /\ call.errcode = NUMERIC_ERRCODE_NO_ERROR
    /\ Output = const_one
    /\ FreshUnary.result = SetSign(const_one, NUMERIC_NEG)

(***************************************************************************)
(* numeric_from_int64 and numeric_to_int64.  An int64_t is four 16-bit     *)
(* limbs, least significant first, in two's complement.  val *= NBASE,     *)
(* val += digits[i] and -val are signed: when one of them overflows the    *)
(* behaviour is undefined, and numericvar_to_int64 returns the set of      *)
(* outcomes of the builds -- the machine's wrapped value with each test    *)
(* that is false or true for every execution without overflow              *)
(* ((val / NBASE) != oldval, (-val) != val) either evaluated on the        *)
(* wrapped values or replaced by what it is without overflow.              *)
(***************************************************************************)
Word == 2^16

Zero64 == <<0, 0, 0, 0>>

\* w * m + carry: the four low limbs followed by the carry out of them
RECURSIVE W64MulAdd(_, _, _, _)
W64MulAdd(w, m, i, carry) ==
    IF i > 4 THEN <<carry>>
    ELSE LET t == w[i] * m + carry
         IN  <<t % Word>> \o W64MulAdd(w, m, i + 1, t \div Word)

\* -w: the complement plus one, modulo 2^64
RECURSIVE W64NegFrom(_, _, _)
W64NegFrom(w, i, carry) ==
    IF i > 4 THEN <<>>
    ELSE LET t == (Word - 1 - w[i]) + carry
         IN  <<t % Word>> \o W64NegFrom(w, i + 1, t \div Word)

W64Neg(w) == W64NegFrom(w, 1, 1)

W64IsNeg(w) == w[4] >= Word \div 2

\* the unsigned w divided by a small m, from the most significant limb down
RECURSIVE W64DivFrom(_, _, _, _)
W64DivFrom(w, m, i, rem) ==
    IF i = 0 THEN [quot |-> <<>>, rem |-> rem]
    ELSE LET t == rem * Word + w[i]
             rest == W64DivFrom(w, m, i - 1, t % m)
         IN  [quot |-> Append(rest.quot, t \div m), rem |-> rest.rem]

W64UDiv(w, m) == W64DivFrom(w, m, 4, 0)

\* the signed w / m of C, truncating toward zero
W64SDiv(w, m) ==
    IF W64IsNeg(w) THEN W64Neg(W64UDiv(W64Neg(w), m).quot)
    ELSE W64UDiv(w, m).quot

\* the do-while loop of int64_to_numericvar: uval's digits, most significant
\* first
RECURSIVE int64_to_numericvar_loop(_, _)
int64_to_numericvar_loop(uval, digits) ==
    LET d == W64UDiv(uval, NBASE)
        ptr == <<d.rem>> \o digits
    IN  IF d.quot # Zero64 THEN int64_to_numericvar_loop(d.quot, ptr) ELSE ptr

\* int64_to_numericvar(val, &result_var), then make_result
numeric_from_int64(val, result) ==
    LET sign == IF W64IsNeg(val) THEN NUMERIC_NEG ELSE NUMERIC_POS
        digits == int64_to_numericvar_loop(
                      IF W64IsNeg(val) THEN W64Neg(val) ELSE val, <<>>)
    IN  IF val = Zero64
        THEN make_result(NumericVar(0, 0, NUMERIC_POS, 0, <<>>), result)
        ELSE make_result(NumericVar(Len(digits), Len(digits) - 1, sign, 0,
                                    digits), result)

\* the for loop of numericvar_to_int64 from i on: the set of [ok, val] it can
\* end with.  overflowed: a signed operation has overflowed before.
RECURSIVE numericvar_to_int64_loop(_, _, _, _, _, _, _)
numericvar_to_int64_loop(digits, ndigits, weight, neg, i, val, overflowed) ==
    IF i > weight
    THEN {[ok |-> TRUE, val |-> IF neg THEN W64Neg(val) ELSE val]}
    ELSE
      LET sum == W64MulAdd(val, NBASE, 1,
                           IF i < ndigits THEN Digit(digits, i) ELSE 0)
          newval == SubSeq(sum, 1, 4)
          undefined == overflowed \/ sum[5] # 0 \/ W64IsNeg(newval)
          suspect == W64SDiv(newval, NBASE) # val
          reject == \/ ~neg
                    \/ W64Neg(newval) # newval
                    \/ newval = Zero64
                    \/ W64IsNeg(val)
          rest == numericvar_to_int64_loop(digits, ndigits, weight, neg,
                                           i + 1, newval, undefined)
          false == {[ok |-> FALSE, val |-> Zero64]}
      IN  IF undefined
          THEN (IF suspect THEN false ELSE {}) \cup rest
          ELSE IF suspect /\ reject THEN false
          ELSE rest

numericvar_to_int64_outcomes(var0) ==
    LET var == strip_var(round_var(var0, 0))
    IN  IF var.ndigits = 0 THEN {[ok |-> TRUE, val |-> Zero64]}
        ELSE numericvar_to_int64_loop(var.digits, var.ndigits, var.weight,
                 var.sign = NUMERIC_NEG, 1,
                 <<Digit(var.digits, 0), 0, 0, 0>>, FALSE)

\* out is the caller's int64_t before the call; the set of [errcode, out]
numeric_to_int64(num, out) ==
    IF NUMERIC_IS_NAN(num)
    THEN {[errcode |-> NUMERIC_ERRCODE_INVALID_ARGUMENT, out |-> out]}
    ELSE { IF r.ok THEN [errcode |-> NUMERIC_ERRCODE_NO_ERROR, out |-> r.val]
           ELSE [errcode |-> NUMERIC_ERRCODE_NUMERIC_VALUE_OUT_OF_RANGE,
                 out |-> out] :
             r \in numericvar_to_int64_outcomes(set_var_from_var(num)) }

(***************************************************************************)
(* The int64 session: the caller converts int64_t values to decimals and   *)
(* decimals (those just produced, and parsed ones around the ends of the   *)
(* int64_t range) to int64_t.                                              *)
(***************************************************************************)
INT64_MAX == <<Word - 1, Word - 1, Word - 1, Word \div 2 - 1>>
INT64_MIN == <<0, 0, 0, Word \div 2>>

Int64Values ==
    { Zero64, <<1, 0, 0, 0>>, W64Neg(<<1, 0, 0, 0>>), <<9999, 0, 0, 0>>,
      <<10000, 0, 0, 0>>, W64Neg(<<57600, 1525, 0, 0>>), <<0, 0, 1, 0>>,
      INT64_MAX, INT64_MIN, W64Neg(INT64_MAX) }

Int64Strings ==
    { <<"0", ".", "4">>, <<"-", "0", ".", "5">>, <<"N", "a", "N">>,
      <<"9", "2", "2", "3", "3", "7", "2", "0", "3", "6", "8", "5", "4", "7",
        "7", "5", "8", "0", "7", ".", "4">>,
      <<"9", "2", "2", "3", "3", "7", "2", "0", "3", "6", "8", "5", "4", "7",
        "7", "5", "8", "0", "7", ".", "5">>,
      <<"9", "2", "2", "3", "3", "7", "2", "0", "3", "6", "8", "5", "4", "7",
        "7", "5", "8", "0", "8">>,
      <<"-", "9", "2", "2", "3", "3", "7", "2", "0", "3", "6", "8", "5", "4",
        "7", "7", "5", "8", "0", "8", ".", "4">>,
      <<"-", "9", "2", "2", "3", "3", "7", "2", "0", "3", "6", "8", "5", "4",
        "7", "7", "5", "8", "0", "9">>,
      <<"1", "e", "2", "0">>, <<"-", "1", "e", "4", "0">>,
      <<"1", "8", "4", "4", "6", "7", "4", "4", "0", "7", "3", "7", "0", "9",
        "5", "5", "1", "6", "1", "7">> }

Int64Operands == { Parsed(s) : s \in Int64Strings }

InitInt64 ==
    /\ \E x \in Int64Operands :
          decimals = [i \in Decimals |-> IF i = 1 THEN x ELSE numeric_init]
    /\ call = NoCall
    /\ str = <<>>
    /\ nops = 0

CallFromInt64 ==
    \E val \in Int64Values, k \in Decimals :
        /\ nops < MaxOps
        /\ \E ret \in {numeric_from_int64(val, decimals[k])} :
            /\ decimals' = [decimals EXCEPT ![k] = ret.result]
            /\ call' = [NoCall EXCEPT !.op = "from_int64", !.out = k,
                                      !.before = decimals[k],
                                      !.errcode = ret.errcode, !.int64 = val]
            /\ nops' = nops + 1
            /\ UNCHANGED str

CallToInt64 ==
    \E i \in Decimals :
        /\ nops < MaxOps
        /\ \E ret \in numeric_to_int64(decimals[i], Zero64) :
            /\ call' = [NoCall EXCEPT !.op = "to_int64", !.arg1 = decimals[i],
                                      !.errcode = ret.errcode,
                                      !.int64 = ret.out]
            /\ nops' = nops + 1
            /\ UNCHANGED <<decimals, str>>

NextInt64 == CallFromInt64 \/ CallToInt64

SpecInt64 == InitInt64 /\ [][NextInt64]_vars

\* the int64_t w as a signed number
W64Magnitude(w) ==
    BigAdd(BigMulSmall(
             BigAdd(BigMulSmall(
                      BigAdd(BigMulSmall(IntLimbs(w[4]), Word), IntLimbs(w[3])),
                      Word), IntLimbs(w[2])),
             Word), IntLimbs(w[1]))

W64ToSigned(w) ==
    IF W64IsNeg(w) THEN Signed(TRUE, W64Magnitude(W64Neg(w)))
    ELSE Signed(FALSE, W64Magnitude(w))

InInt64Range(n) ==
    /\ SignedLe(W64ToSigned(INT64_MIN), n)
    /\ SignedLe(n, W64ToSigned(INT64_MAX))

\* numeric_to_int64 converted a number
ConvertedToInt64 == call.op = "to_int64" /\ ~NUMERIC_IS_NAN(call.arg1)

\* the decimal converted is what numeric_from_int64 made of val
MadeFromInt64(val) == call.arg1 = numeric_from_int64(val, numeric_init).result

\* C26: to_int64(from_int64(v)) = v for every int64_t v, INT64_MIN and
\* INT64_MAX included; to_int64 returns VALUE_OUT_OF_RANGE for every number
\* whose nearest integer is outside [-2^63, 2^63 - 1] and never NO_ERROR
\* with another value than the nearest integer.
C26_Int64RoundTrip ==
    ConvertedToInt64
      => /\ \A val \in Int64Values :
               MadeFromInt64(val)
                 => /\ call.errcode = NUMERIC_ERRCODE_NO_ERROR
                    /\ call.int64 = val
         /\ ~InInt64Range(NearestInteger(call.arg1))
              => call.errcode = NUMERIC_ERRCODE_NUMERIC_VALUE_OUT_OF_RANGE
         /\ call.errcode = NUMERIC_ERRCODE_NO_ERROR
              => W64ToSigned(call.int64) = NearestInteger(call.arg1)

\* what holds of every build: the integers of [-2^63 + 1, 2^63 - 1] are
\* converted to themselves, and VALUE_OUT_OF_RANGE is the only error
C26_Int64RoundTripWithoutOverflow ==
    ConvertedToInt64
      => /\ call.errcode \in {NUMERIC_ERRCODE_NO_ERROR,
                              NUMERIC_ERRCODE_NUMERIC_VALUE_OUT_OF_RANGE}
         /\ \A val \in Int64Values \ {INT64_MIN} :
               MadeFromInt64(val)
                 => /\ call.errcode = NUMERIC_ERRCODE_NO_ERROR
                    /\ call.int64 = val
         /\ SignedLe(W64ToSigned(W64Neg(INT64_MAX)), NearestInteger(call.arg1))
            /\ SignedLe(NearestInteger(call.arg1), W64ToSigned(INT64_MAX))
              => /\ call.errcode = NUMERIC_ERRCODE_NO_ERROR
                 /\ W64ToSigned(call.int64) = NearestInteger(call.arg1)

\* INT64_MIN converted to a decimal and back is reported out of range
C26_Witness ==
    /\ ConvertedToInt64
    /\ MadeFromInt64(INT64_MIN)
    /\ call.errcode = NUMERIC_ERRCODE_NUMERIC_VALUE_OUT_OF_RANGE

\* 10^20 converted with NO_ERROR to its low 64 bits, 7766279631452241920
C26_WitnessWrapped ==
    /\ ConvertedToInt64
    /\ call.arg1 = Parsed(<<"1", "e", "2", "0">>)
    /\ call.errcode = NUMERIC_ERRCODE_NO_ERROR
    /\ W64ToSigned(call.int64)
         = Signed(FALSE, <<1920, 5224, 6314, 6279, 776>>)

(***************************************************************************)
(* The digit buffers numeric_power allocates and frees, in program order.  *)
(* <<"alloc", v>> is a digitbuf_alloc (or malloc) whose buffer is stored   *)
(* in v->buf and <<"free", v>> is digitbuf_free(v->buf), which does        *)
(* nothing when v->buf is NULL.  A variable that a function replaces the   *)
(* buffer of (alloc_var, set_var_from_var) is freed and allocated.         *)
(***************************************************************************)
\* alloc_var(var, n) and set_var_from_var(value, var)
alloc_var_buffers(var) == << <<"free", var>>, <<"alloc", var>> >>

\* numeric_dispose(var) and zero_var(var)
numeric_dispose_buffers(var) == << <<"free", var>> >>

\* mul_var(var1, var2, result, rscale)
mul_var_buffers(var1, var2, rscale, result) ==
    IF var1.ndigits = 0 \/ var2.ndigits = 0
    THEN numeric_dispose_buffers(result)
    ELSE IF mul_lengths(var1.ndigits, var2.ndigits,
                        var1.weight + var2.weight + 2, rscale).zero
    THEN numeric_dispose_buffers(result)
    ELSE alloc_var_buffers(result)

\* the while loop of power_var_int
RECURSIVE power_loop_buffers(_, _, _, _, _)
power_loop_buffers(base_prod, val, exp, local_rscale, result) ==
    LET exp1 == exp \div 2
        prod == mul_var(base_prod, base_prod, local_rscale)
    IN  IF exp1 > 0
        THEN mul_var_buffers(base_prod, base_prod, local_rscale, "base_prod")
               \o (IF exp1 % 2 = 1
                   THEN mul_var_buffers(prod, val, local_rscale, result)
                   ELSE <<>>)
               \o power_loop_buffers(prod,
                      IF exp1 % 2 = 1 THEN mul_var(prod, val, local_rscale)
                      ELSE val,
                      exp1, local_rscale, result)
        ELSE <<>>

\* power_var_int(base, exp, result, rscale) for a nonzero base when exp < 0
power_var_int_buffers(base, exp, rscale, result) ==
    CASE exp = 0 -> alloc_var_buffers(result)
      [] exp = 1 -> alloc_var_buffers(result)
      [] exp = -1 -> alloc_var_buffers(result)
      [] exp = 2 -> mul_var_buffers(base, base, rscale, result)
      [] OTHER ->
           alloc_var_buffers("base_prod")
             \o alloc_var_buffers(result)
             \o power_loop_buffers(set_var_from_var(base),
                    IF Abs(exp) % 2 = 1 THEN set_var_from_var(base)
                    ELSE set_var_from_var(const_one),
                    Abs(exp), rscale + MUL_GUARD_DIGITS * 2, result)
             \o numeric_dispose_buffers("base_prod")
             \o (IF exp < 0
                      /\ power_var_int_product(base, exp, rscale).ndigits # 0
                 THEN alloc_var_buffers(result)
                 ELSE <<>>)

\* power_var(base, exp, result): ln_var returns its error for a base that is
\* not positive before it allocates anything
power_var_buffers(base, exp, result) ==
    LET x64 == numericvar_to_int64(set_var_from_var(exp))
        rscale == Min(Max(Max(NUMERIC_MIN_SIG_DIGITS, base.dscale),
                          NUMERIC_MIN_DISPLAY_SCALE),
                      NUMERIC_MAX_DISPLAY_SCALE)
        rest == IF cmp_var(base, const_zero) = 0
                THEN alloc_var_buffers(result)
                ELSE <<>>
    IN  IF power_var_exp_is_integer(exp)
        THEN alloc_var_buffers("x")
               \o (IF power_var_exp_fits_int(exp, x64)
                   THEN power_var_int_buffers(base, NarrowToInt32(x64.val),
                                              rscale, result)
                          \o numeric_dispose_buffers("x")
                   ELSE numeric_dispose_buffers("x") \o rest)
        ELSE rest

numeric_power_buffers(num1, num2) ==
    LET r == power_var(num1, num2, numeric_init)
    IN  IF NUMERIC_IS_NAN(num1) \/ NUMERIC_IS_NAN(num2)
        THEN make_result_buffers(const_nan, "const_nan", "result")
        ELSE alloc_var_buffers("arg2_trunc")
               \o (IF power_invalid(num1, num2) THEN <<>>
                   ELSE power_var_buffers(num1, num2, "result_var")
                          \o (IF r.errcode # NUMERIC_ERRCODE_NO_ERROR THEN <<>>
                              ELSE make_result_buffers(r.result, "result_var",
                                                       "result")
                                     \o (IF make_result(r.result, numeric_init).errcode
                                              # NUMERIC_ERRCODE_NO_ERROR
                                         THEN <<>>
                                         ELSE numeric_dispose_buffers("result_var")
                                                \o numeric_dispose_buffers("arg2_trunc"))))

\* the variables that hold a digit buffer after the events
RECURSIVE HeldAfter(_, _)
HeldAfter(events, held) ==
    IF events = <<>> THEN held
    ELSE HeldAfter(Tail(events),
                   IF Head(events)[1] = "alloc" THEN held \cup {Head(events)[2]}
                   ELSE IF Head(events)[1] = "free" THEN held \ {Head(events)[2]}
                   ELSE held)

\* the local variables of the last numeric_power that still hold a digit
\* buffer when it returns
PowerLeaked ==
    HeldAfter(numeric_power_buffers(call.arg1, call.arg2), {}) \ {"result"}

\* C21: when numeric_power returns, with an error code or without, every
\* digit buffer it allocated for its local variables has been freed; only
\* the result's buffer is live.
C21_PowerReleasesBuffers == call.op = "power" => PowerLeaked = {}

\* what numeric_power does: the buffers are freed when it returns NO_ERROR
C21_PowerReleasesBuffersOnSuccess ==
    (call.op = "power" /\ call.errcode = NUMERIC_ERRCODE_NO_ERROR)
      => PowerLeaked = {}

\* numeric_power returns INVALID_ARGUMENT and the truncated copy of the
\* exponent still holds its buffer
C21_Witness ==
    /\ call.op = "power"
    /\ call.errcode = NUMERIC_ERRCODE_INVALID_ARGUMENT
    /\ "arg2_trunc" \in PowerLeaked

(***************************************************************************)
(* The scale session: two of the caller's decimals hold 10^-1000, 10^1000  *)
(* or 3, and the calls are numeric_mul of two of the caller's decimals,    *)
(* which may be the same decimal, into another one.                        *)
(***************************************************************************)
\* the longest chain of multiplications
MaxChain == 6

ScaleStrings ==
    { <<"1", "e", "-", "1", "0", "0", "0">>,
      <<"1", "e", "1", "0", "0", "0">>,
      <<"3">> }

ScaleOperands == { Parsed(s) : s \in ScaleStrings }

InitScale ==
    /\ \E x \in ScaleOperands : \E y \in ScaleOperands :
          decimals = [i \in Decimals |->
                        IF i = 1 THEN x ELSE IF i = 2 THEN y ELSE numeric_init]
    /\ call = NoCall
    /\ str = <<>>
    /\ nops = 0

CallMulChain ==
    \E i \in Decimals : \E j \in Decimals : \E k \in Decimals \ {i, j} :
        /\ nops < MaxChain
        /\ \E ret \in {numeric_mul(decimals[i], decimals[j], decimals[k])} :
            /\ decimals' = [decimals EXCEPT ![k] = ret.result]
            /\ call' = [NoCall EXCEPT !.op = "mul", !.arg1 = decimals[i],
                                      !.arg2 = decimals[j], !.out = k,
                                      !.before = decimals[k],
                                      !.errcode = ret.errcode]
            /\ nops' = nops + 1
            /\ UNCHANGED str

NextScale == CallMulChain

SpecScale == InitScale /\ [][NextScale]_vars

\* minweight <= x.weight <= maxweight and 0 <= x.dscale <= maxdscale
FieldsWithin(x, minweight, maxweight, maxdscale) ==
    /\ minweight <= x.weight /\ x.weight <= maxweight
    /\ 0 <= x.dscale /\ x.dscale <= maxdscale

\* the exact product of the last call's arguments is zero, or its weight
\* and the sum of the display scales are within the bounds
ProductWithin(minweight, maxweight, maxdscale) ==
    LET product == mul_var(call.arg1, call.arg2,
                           call.arg1.dscale + call.arg2.dscale)
    IN  \/ product.ndigits = 0
        \/ FieldsWithin(product, minweight, maxweight, maxdscale)

\* C22: after any sequence of multiplications every decimal that is not NaN
\* has |weight| <= 2^15 - 1 and 0 <= dscale <= 2^14 - 1, and a
\* multiplication whose product is outside these bounds returns
\* VALUE_OUT_OF_RANGE.
C22_PackedRange ==
    /\ \A i \in Decimals :
          ~NUMERIC_IS_NAN(decimals[i])
            => FieldsWithin(decimals[i], -(2^15 - 1), 2^15 - 1, 2^14 - 1)
    /\ call.op = "mul"
         => call.errcode =
              (IF ProductWithin(-(2^15 - 1), 2^15 - 1, 2^14 - 1)
               THEN NUMERIC_ERRCODE_NO_ERROR
               ELSE NUMERIC_ERRCODE_NUMERIC_VALUE_OUT_OF_RANGE)

\* what make_result enforces: both fields fit an int16_t, so that dscale
\* is at most 2^15 - 1
C22_Int16Range ==
    /\ \A i \in Decimals :
          ~NUMERIC_IS_NAN(decimals[i])
            => FieldsWithin(decimals[i], INT16_MIN, INT16_MAX, INT16_MAX)
    /\ call.op = "mul"
         => call.errcode =
              (IF ProductWithin(INT16_MIN, INT16_MAX, INT16_MAX)
               THEN NUMERIC_ERRCODE_NO_ERROR
               ELSE NUMERIC_ERRCODE_NUMERIC_VALUE_OUT_OF_RANGE)

\* a multiplication returned NO_ERROR and a nonzero product whose dscale
\* is above 2^14 - 1
C22_Witness ==
    /\ Succeeded("mul")
    /\ Output.ndigits > 0
    /\ Output.dscale > 2^14 - 1

\* a multiplication returned VALUE_OUT_OF_RANGE and left its output alone
C22_WitnessOutOfRange ==
    /\ call.op = "mul"
    /\ call.errcode = NUMERIC_ERRCODE_NUMERIC_VALUE_OUT_OF_RANGE
    /\ Output = call.before

(***************************************************************************)
(* The steps of div_var's main loop (Knuth 4.3.1 D), one record for each   *)
(* quotient position j:                                                    *)
(*   top       dividend[j] on entry, divisor1 the first divisor digit      *)
(*   skipped   next2digits == 0, the digit is 0 without further work       *)
(*   qhat0     the estimate, qhat the estimate after the while loop        *)
(*   extent    the largest value an int expression of the step takes       *)
(*   carry     carry after the multiply-subtract loop                      *)
(*   borrow    borrow after the multiply-subtract loop                     *)
(*   addcarry  carry after the add-back loop (0 when it does not run)      *)
(*   digit     res_digits[j]                                               *)
(*   exact     digit * divisor <= dividend[j .. j+n] < (digit+1) * divisor *)
(*   last      the largest index of dividend[] the step uses               *)
(***************************************************************************)
\* "carry" after the multiply-subtract loop, i = var2ndigits down to 0
RECURSIVE div_mulsub_carry(_, _, _, _)
div_mulsub_carry(divisor, qhat, i, carry) ==
    IF i < 0 THEN carry
    ELSE div_mulsub_carry(divisor, qhat, i - 1,
                          CDiv(carry + divisor[i] * qhat, NBASE))

\* "carry" after the add-back loop, i = var2ndigits down to 0
RECURSIVE div_addback_carry(_, _, _, _, _)
div_addback_carry(dividend, divisor, j, i, carry) ==
    IF i < 0 THEN carry
    ELSE div_addback_carry(dividend, divisor, j, i - 1,
             IF carry + dividend[j + i] + divisor[i] >= NBASE THEN 1 ELSE 0)

\* the largest of the values that the int expressions of the while loop
\* take while qhat goes from qhat0 down to qhat, and the bound
\* (NBASE - 1) * qhat + NBASE of carry + divisor[i] * qhat in the
\* multiply-subtract loop
div_extent(qhat0, qhat, divisor1, divisor2, next2digits, d2) ==
    LET tried == qhat .. qhat0
        values == { divisor2 * q : q \in tried }
                    \cup { q * divisor1 : q \in tried }
                    \cup { (next2digits - q * divisor1) * NBASE + d2 : q \in tried }
                    \cup { (NBASE - 1) * qhat + NBASE, next2digits }
    IN  CHOOSE v \in values : \A w \in values : w <= v

\* dividend[j .. j+n] as a natural number
DividendPart(dividend, j, n) ==
    BigNorm([i \in 1 .. n + 1 |-> dividend[j + n + 1 - i]])

\* divisor[1 .. n] as a natural number
DivisorPart(divisor, n) == BigNorm([i \in 1 .. n |-> divisor[n + 1 - i]])

RECURSIVE div_long_steps(_, _, _, _, _)
div_long_steps(dividend, divisor, var2ndigits, res_ndigits, j) ==
    IF j >= res_ndigits THEN <<>>
    ELSE
      LET divisor1 == divisor[1]
          divisor2 == divisor[2]
          next2digits == dividend[j] * NBASE + dividend[j + 1]
          qhat0 == IF dividend[j] = divisor1 THEN NBASE - 1
                   ELSE next2digits \div divisor1
          qhat == div_adjust(qhat0, divisor1, divisor2, next2digits, dividend[j + 2])
          ms == div_mulsub(dividend, divisor, qhat, j, var2ndigits, 0, 0)
          subtracts == next2digits # 0 /\ qhat > 0
          addsback == subtracts /\ ms.borrow # 0
          digit == IF next2digits = 0 THEN 0
                   ELSE IF addsback THEN qhat - 1 ELSE qhat
          U == DividendPart(dividend, j, var2ndigits)
          V == DivisorPart(divisor, var2ndigits)
          step == [top |-> dividend[j],
                   divisor1 |-> divisor1,
                   skipped |-> next2digits = 0,
                   qhat0 |-> qhat0,
                   qhat |-> qhat,
                   extent |-> div_extent(qhat0, qhat, divisor1, divisor2,
                                         next2digits, dividend[j + 2]),
                   carry |-> IF subtracts
                             THEN div_mulsub_carry(divisor, qhat, var2ndigits, 0)
                             ELSE 0,
                   borrow |-> IF subtracts THEN ms.borrow ELSE 0,
                   addcarry |-> IF addsback
                                THEN div_addback_carry(ms.dividend, divisor, j,
                                                       var2ndigits, 0)
                                ELSE 0,
                   digit |-> digit,
                   exact |-> /\ digit >= 0
                             /\ BigLe(BigMulSmall(V, digit), U)
                             /\ BigLt(U, BigMulSmall(V, digit + 1)),
                   last |-> j + var2ndigits]
          left == IF addsback
                  THEN div_addback(ms.dividend, divisor, j, var2ndigits, 0)
                  ELSE IF subtracts THEN ms.dividend
                  ELSE dividend
      IN  <<step>> \o div_long_steps(left, divisor, var2ndigits, res_ndigits,
                                      j + 1)

\* the steps of div_var(var1, var2, result, rscale, round), and the number
\* of digits of its working dividend; no steps when the divisor has one
\* digit or the call returns before the division
div_var_steps(var1, var2, rscale, round) ==
    LET n0 == Max(var1.weight - var2.weight + 1
                    + CDiv(rscale + DEC_DIGITS - 1, DEC_DIGITS), 1)
        res_ndigits == IF round THEN n0 + 1 ELSE n0
        var1ndigits == var1.ndigits
        var2ndigits == var2.ndigits
        div_ndigits == Max(res_ndigits + var2ndigits, var1ndigits)
        dividend0 == [i \in 0 .. div_ndigits |->
                        IF 1 <= i /\ i <= var1ndigits THEN var1.digits[i] ELSE 0]
        divisor0 == [i \in 0 .. var2ndigits |->
                        IF i = 0 THEN 0 ELSE var2.digits[i]]
        d == NBASE \div (divisor0[1] + 1)
        scale == divisor0[1] < HALF_NBASE
        divisor == IF scale THEN div_scale(divisor0, d, var2ndigits, 1, 0)
                   ELSE divisor0
        dividend == IF scale THEN div_scale(dividend0, d, var1ndigits, 0, 0)
                    ELSE dividend0
    IN  IF var2ndigits < 2 \/ var1ndigits = 0 \/ Digit(var2.digits, 0) = 0
        THEN [div_ndigits |-> 0, steps |-> <<>>]
        ELSE [div_ndigits |-> div_ndigits,
              steps |-> div_long_steps(dividend, divisor, var2ndigits,
                                       res_ndigits, 0)]

(***************************************************************************)
(* The division session: two of the caller's decimals hold operands whose  *)
(* quotients need the estimate NBASE - 1, two corrections of the estimate  *)
(* or the add-back step, and the calls are the three divisions.            *)
(***************************************************************************)
DivStrings ==
    { <<"8", "7", "1", "7">>,
      <<"6", "2", "3", "8", "9", "9", "9", "9">>,
      <<"5", "9", "3", "7">>,
      <<"1", "9", "5", "3", "9", "9", "9", "9">>,
      <<"6", "6", "4">>,
      <<"3", "5", "5", "7", "0", "0", "0", "0", "9", "9", "9", "8">>,
      <<"-", "9", "8", "7", "6", "5", ".", "4", "3", "2", "1">>,
      <<"0", ".", "0", "0", "0", "1", "0", "0", "0", "0", "9", "9", "9", "9">> }

DivOperands == { Parsed(s) : s \in DivStrings }

InitDiv ==
    /\ \E x \in DivOperands : \E y \in DivOperands :
          decimals = [i \in Decimals |->
                        IF i = 1 THEN x ELSE IF i = 2 THEN y ELSE numeric_init]
    /\ call = NoCall
    /\ str = <<>>
    /\ nops = 0

NextDiv ==
    \/ CallDiv
    \/ CallDivTrunc
    \/ CallMod

SpecDiv == InitDiv /\ [][NextDiv]_vars

\* the steps of the division the last call made
LastDivision ==
    IF NUMERIC_IS_NAN(call.arg1) \/ NUMERIC_IS_NAN(call.arg2)
    THEN [div_ndigits |-> 0, steps |-> <<>>]
    ELSE IF call.op = "div"
    THEN div_var_steps(call.arg1, call.arg2,
                       select_div_scale(call.arg1, call.arg2), TRUE)
    ELSE IF call.op \in {"div_trunc", "mod"}
    THEN div_var_steps(call.arg1, call.arg2, 0, FALSE)
    ELSE [div_ndigits |-> 0, steps |-> <<>>]

\* the properties of one step
KnuthStep(s, div_ndigits) ==
    /\ s.top <= s.divisor1
    /\ s.qhat0 - s.qhat <= 2
    /\ s.carry = 0
    /\ s.borrow # 0 => s.addcarry = 1
    /\ s.exact
    /\ s.digit <= NBASE - 1
    /\ s.extent <= INT_MAX
    /\ s.last <= div_ndigits

\* C23: at every quotient position of div_var's multi-digit path
\* dividend[j] <= divisor[1], the estimate is decremented at most twice,
\* the multiplication carry ends as 0, a borrow happens only when the
\* estimate was one too large and the add-back then ends with carry 1, the
\* digit is the exact quotient digit in [0, NBASE - 1], no int expression
\* exceeds INT_MAX and no index exceeds div_ndigits.
C23_KnuthD ==
    \A k \in DOMAIN LastDivision.steps :
        KnuthStep(LastDivision.steps[k], LastDivision.div_ndigits)

\* a division with a step that corrects the estimate twice, a step whose
\* borrow is cancelled by the add-back and a step with dividend[j]
\* = divisor[1] has been made
C23_Witness ==
    /\ \E k \in DOMAIN LastDivision.steps :
          LastDivision.steps[k].borrow # 0
    /\ \E k \in DOMAIN LastDivision.steps :
          LastDivision.steps[k].qhat0 - LastDivision.steps[k].qhat = 2
    /\ \E k \in DOMAIN LastDivision.steps :
          LastDivision.steps[k].top = LastDivision.steps[k].divisor1

(***************************************************************************)
(* The rows of mul_var's accumulation loop, one record for each nonzero    *)
(* digit of var1:                                                          *)
(*   maxdig      maxdig after "maxdig += var1digit" and the reset          *)
(*   var1digit   the digit of var1                                         *)
(*   swept       the carry sweep ran before the row was added              *)
(*   sweepcarry  carry after that sweep                                    *)
(*   before      the largest cell of dig[] just before the row is added    *)
(*   fits        every "dig[i--] += var1digit * var2digits[i2]" of the row *)
(*               leaves its cell at most INT_MAX                           *)
(* The replay stops at a row that does not fit.                            *)
(***************************************************************************)
\* a loop that never takes the time to normalize
mul_normalize_never(maxdig) == FALSE

\* "Time to normalize?", for maxdig after maxdig += var1digit
mul_normalize_now(maxdig) == maxdig > INT_MAX \div (NBASE - 1)

\* carry after a carry propagation sweep, i = res_ndigits - 1 down to 0
RECURSIVE mul_normalize_carry(_, _, _)
mul_normalize_carry(dig, i, carry) ==
    IF i < 0 THEN carry
    ELSE mul_normalize_carry(dig, i - 1,
             IF dig[i] + carry >= NBASE THEN (dig[i] + carry) \div NBASE ELSE 0)

\* the largest cell of dig[]
MaxCell(dig) ==
    CHOOSE v \in { dig[i] : i \in DOMAIN dig } : \A i \in DOMAIN dig : dig[i] <= v

\* the additions of the row that starts at dig[ri]
mul_row_fits(dig, ri, var2ndigits, var1digit, var2digits) ==
    \A i2 \in 0 .. var2ndigits - 1 :
        dig[ri - (var2ndigits - 1 - i2)]
          <= INT_MAX - var1digit * Digit(var2digits, i2)

RECURSIVE mul_loop_steps(_, _, _, _, _, _, _, _)
mul_loop_steps(dig, ri, i1, maxdig, var1digits, var2digits, var2ndigits, res_ndigits) ==
    IF i1 < 0 THEN <<>>
    ELSE
      LET var1digit == Digit(var1digits, i1)
          normalize == mul_normalize_now(maxdig + var1digit)
          dig1 == IF normalize THEN mul_normalize(dig, res_ndigits - 1, 0) ELSE dig
          maxdig1 == IF normalize THEN 1 + var1digit ELSE maxdig + var1digit
          fits == mul_row_fits(dig1, ri, var2ndigits, var1digit, var2digits)
          step == [maxdig |-> maxdig1,
                   var1digit |-> var1digit,
                   swept |-> normalize,
                   sweepcarry |-> IF normalize
                                  THEN mul_normalize_carry(dig, res_ndigits - 1, 0)
                                  ELSE 0,
                   before |-> MaxCell(dig1),
                   fits |-> fits]
      IN  IF var1digit = 0
          THEN mul_loop_steps(dig, ri - 1, i1 - 1, maxdig, var1digits,
                              var2digits, var2ndigits, res_ndigits)
          ELSE IF ~fits THEN <<step>>
          ELSE <<step>> \o
               mul_loop_steps(mul_accumulate(dig1, ri, var2ndigits - 1,
                                             var1digit, var2digits),
                              ri - 1, i1 - 1, maxdig1, var1digits, var2digits,
                              var2ndigits, res_ndigits)

\* the rows of mul_var(var1, var2, result, rscale), the carry after the
\* final sweep and the digits it stores; no rows when the product is zero
\* without a multiplication
mul_var_steps(var1, var2, rscale) ==
    LET len == mul_lengths(var1.ndigits, var2.ndigits,
                           var1.weight + var2.weight + 2, rscale)
        res_ndigits == len.res_ndigits
        dig0 == [i \in 0 .. res_ndigits - 1 |-> 0]
        rows == mul_loop_steps(dig0, res_ndigits - 1, len.var1ndigits - 1, 0,
                               var1.digits, var2.digits, len.var2ndigits,
                               res_ndigits)
        dig == mul_loop(dig0, res_ndigits - 1, len.var1ndigits - 1, 0,
                        var1.digits, var2.digits, len.var2ndigits, res_ndigits)
        complete == \A k \in DOMAIN rows : rows[k].fits
    IN  IF var1.ndigits = 0 \/ var2.ndigits = 0 \/ len.zero
        THEN [rows |-> <<>>, carry |-> 0, res_digits |-> <<>>]
        ELSE IF ~complete
        THEN [rows |-> rows, carry |-> 0, res_digits |-> <<>>]
        ELSE [rows |-> rows,
              carry |-> mul_normalize_carry(dig, res_ndigits - 1, 0),
              res_digits |-> [k \in 1 .. res_ndigits |->
                                mul_normalize(dig, res_ndigits - 1, 0)[k - 1]]]

(***************************************************************************)
(* The wide multiplication session: two of the caller's decimals hold what *)
(* numeric_from_str stores for an operand of up to WideDigits digits, most *)
(* of them NBASE - 1, and for a short operand, and the session makes one   *)
(* call of numeric_mul.                                                    *)
(***************************************************************************)
WideDigits == 23

\* first, then NBASE - 1 in every other digit
Nines(ndigits, weight, dscale, first) ==
    NumericVar(ndigits, weight, NUMERIC_POS, dscale,
               [i \in 1 .. ndigits |-> IF i = 1 THEN first ELSE NBASE - 1])

\* 92 nines; 5999 and 88 nines; 44 nines, a point and 48 nines;
\* 1 and 87 nines
WideOperands ==
    { Nines(WideDigits, WideDigits - 1, 0, NBASE - 1),
      Nines(WideDigits, WideDigits - 1, 0, 5999),
      Nines(WideDigits, 10, 48, NBASE - 1),
      Nines(WideDigits - 1, WideDigits - 2, 0, 1) }

\* 1; 99999999; 9999.9999; 5; 0.9999; 0
ShortOperands ==
    { Nines(1, 0, 0, 1),
      Nines(2, 1, 0, NBASE - 1),
      Nines(2, 0, 4, NBASE - 1),
      Nines(1, 0, 0, 5),
      Nines(1, -1, 4, NBASE - 1),
      Nines(0, 0, 0, 0) }

InitWide ==
    /\ \E x \in WideOperands : \E y \in ShortOperands :
          decimals = [i \in Decimals |->
                        IF i = 1 THEN x ELSE IF i = 2 THEN y ELSE numeric_init]
    /\ call = NoCall
    /\ str = <<>>
    /\ nops = 0

CallMulWide == nops = 0 /\ CallMul

NextWide == CallMulWide

SpecWide == InitWide /\ [][NextWide]_vars

\* the rows of the multiplication the last call made
LastMultiplication ==
    IF call.op = "mul" /\ ~NUMERIC_IS_NAN(call.arg1) /\ ~NUMERIC_IS_NAN(call.arg2)
    THEN mul_var_steps(call.arg1, call.arg2,
                       call.arg1.dscale + call.arg2.dscale)
    ELSE [rows |-> <<>>, carry |-> 0, res_digits |-> <<>>]

\* the properties of one row
AccumulatorRow(r) ==
    /\ r.fits
    /\ r.maxdig <= INT_MAX \div (NBASE - 1)
    /\ r.before <= (r.maxdig - r.var1digit) * (NBASE - 1)
    /\ r.sweepcarry = 0

\* C24: in mul_var no cell of dig[] exceeds INT_MAX: before each row is
\* added every cell is at most (maxdig - var1digit) * (NBASE - 1), the cells
\* being normalized when maxdig would exceed INT_MAX / (NBASE - 1), and the
\* final sweep ends with carry 0 and every result digit in [0, NBASE - 1].
C24_AccumulatorBounded ==
    /\ \A k \in DOMAIN LastMultiplication.rows :
          AccumulatorRow(LastMultiplication.rows[k])
    /\ LastMultiplication.carry = 0
    /\ \A k \in DOMAIN LastMultiplication.res_digits :
          /\ 0 <= LastMultiplication.res_digits[k]
          /\ LastMultiplication.res_digits[k] <= NBASE - 1

\* a multiplication that normalized dig[] before adding a row
C24_Witness ==
    \E k \in DOMAIN LastMultiplication.rows : LastMultiplication.rows[k].swept

(***************************************************************************)
(* The spare digit of round_var.  A variable's spare is the sequence of    *)
(* the cells of its buffer that lie before var->digits, buf[0] first.      *)
(***************************************************************************)
\* copy_var: digits = newbuf, no cell before it
copy_var_spare == <<>>

\* alloc_var: buf[0] = 0, digits = buf + 1
alloc_var_spare == <<0>>

\* set_var_from_var: newbuf[0] = 0, digits = newbuf + 1
set_var_from_var_spare == <<0>>

\* zero_var: buf = NULL, digits = NULL
zero_var_spare == <<>>

\* strip_var: digits++ for every leading zero of var
strip_var_spare(spare, var) ==
    spare \o [i \in 1 .. LeadingZeroes(var.digits) |-> 0]

\* round_var(var, rscale) propagates the carry out of digits[0]
round_var_carried(var, rscale) ==
    /\ (var.weight + 1) * DEC_DIGITS + rscale >= 0
    /\ round_var(var, rscale).weight = var.weight + 1

\* round_var: var->digits-- after the carry came out of digits[0]
round_var_spare(spare, var, rscale) ==
    IF round_var_carried(var, rscale)
    THEN SubSeq(spare, 1, Len(spare) - 1)
    ELSE spare

\* the quotient div_var hands to round_var
div_var_quotient(var1, var2, rscale) ==
    LET res_weight == var1.weight - var2.weight
        res_ndigits ==
            Max(res_weight + 1 + CDiv(rscale + DEC_DIGITS - 1, DEC_DIGITS), 1) + 1
    IN  NumericVar(res_ndigits, res_weight,
                   IF var1.sign = var2.sign THEN NUMERIC_POS ELSE NUMERIC_NEG,
                   0, div_digits(var1, var2, res_ndigits))

\* the round_var calls of get_str_from_var_sci(var, rscale), in order: the
\* one of div_var on the quotient and the one of get_str_from_var on the
\* significand div_var has rounded and stripped
get_str_from_var_sci_rounds(var, rscale0) ==
    LET rscale == IF rscale0 < 0 THEN 0 ELSE rscale0
        exponent == sci_exponent(var)
        denominator == power_var_int(int64_to_numericvar(10), exponent,
                                     IF exponent < 0 THEN -exponent ELSE 0)
        quot == div_var_quotient(var, denominator, rscale)
    IN  IF var.ndigits = 0
        THEN << [var |-> NumericVar(0, 0, NUMERIC_POS, rscale, <<>>),
                 rscale |-> rscale, spare |-> zero_var_spare] >>
        ELSE << [var |-> quot, rscale |-> rscale, spare |-> alloc_var_spare],
                [var |-> strip_var(round_var(quot, rscale)), rscale |-> rscale,
                 spare |-> strip_var_spare(
                               round_var_spare(alloc_var_spare, quot, rscale),
                               round_var(quot, rscale))] >>

\* the round_var calls the last call made: [var, rscale, spare]
round_var_calls ==
    IF NUMERIC_IS_NAN(call.arg1) THEN <<>>
    ELSE IF call.op = "round"
    THEN << [var |-> call.arg1, rscale |-> ClampScale(call.scale),
             spare |-> set_var_from_var_spare] >>
    ELSE IF call.op = "to_int32"
    THEN << [var |-> call.arg1, rscale |-> 0,
             spare |-> set_var_from_var_spare] >>
    ELSE IF call.op = "to_str_sci"
    THEN get_str_from_var_sci_rounds(
             call.arg1, IF call.scale < 0 THEN call.arg1.dscale ELSE call.scale)
    ELSE <<>>

\* the carry digit of the call c is written into a cell of the buffer that
\* holds 0
CarryInsideBuffer(c) ==
    round_var_carried(c.var, c.rscale)
        => /\ Len(c.spare) >= 1
           /\ c.spare[Len(c.spare)] = 0

C25_WitnessRoundedTwice ==
    /\ call.op = "to_str_sci"
    /\ Len(round_var_calls) = 2
    /\ round_var_calls[2].var.ndigits < round_var_calls[1].var.ndigits

(***************************************************************************)
(* Integer powers.                                                         *)
(***************************************************************************)
\* b^n for n >= 0, exactly: a product with every fractional digit kept
RECURSIVE ExactPower(_, _)
ExactPower(b, n) ==
    IF n = 0 THEN const_one
    ELSE CHOOSE r \in
           { mul_var(p, b, p.dscale + b.dscale) : p \in { ExactPower(b, n - 1) } } :
           TRUE

\* the last call raised a nonzero number to the integer n
PowerToInt(n) ==
    /\ PowerOfNumbers
    /\ ~DenotesZero(call.arg1)
    /\ SameValue(call.arg2, int64_to_numericvar(n))

\* the output of the last call is b^n at the scale max(16, b.dscale), b the
\* base of the call: b^n rounded for n >= 0, and 1 / b^|n| rounded for n < 0
IsIntegerPower(n) ==
    LET rscale == Max(NUMERIC_MIN_SIG_DIGITS, call.arg1.dscale)
    IN  /\ call.errcode = NUMERIC_ERRCODE_NO_ERROR
        /\ ~NUMERIC_IS_NAN(Output)
        /\ IF n >= 0
           THEN IsRounded(Output, ExactPower(call.arg1, n), rscale)
           ELSE /\ IsRoundedQuotient(Output, const_one,
                                     ExactPower(call.arg1, -n), rscale)
                /\ HasQuotientSign(Output, const_one, ExactPower(call.arg1, -n))

\* C28: for every nonzero base b and every integer exponent n that an int
\* holds, power(b, n) is b^n at the result scale max(16, b.dscale); for a
\* negative n it is the reciprocal of b^|n|.
C28_IntegerPower ==
    \A n \in -MaxExp .. MaxExp : PowerToInt(n) => IsIntegerPower(n)

\* C28 for the exponents from -1 up, which do not end in div_var_fast
C28_IntegerPowerFromMinusOne ==
    \A n \in -1 .. MaxExp : PowerToInt(n) => IsIntegerPower(n)

\* a nonzero base raised to a negative integer returned zero with NO_ERROR,
\* and zero is not the reciprocal of b^|n| at the scale of the result
C28_Witness ==
    \E n \in 2 .. MaxExp :
        /\ PowerToInt(-n)
        /\ call.errcode = NUMERIC_ERRCODE_NO_ERROR
        /\ DenotesZero(Output)
        /\ ~IsRoundedQuotient(Output, const_one, ExactPower(call.arg1, n),
                              Max(NUMERIC_MIN_SIG_DIGITS, call.arg1.dscale))

\* a negative exponent below -1 whose division by b^|n| came out rounded
C28_WitnessReciprocal ==
    \E n \in 2 .. MaxExp :
        /\ PowerToInt(-n)
        /\ ~DenotesZero(Output)
        /\ IsIntegerPower(-n)

(***************************************************************************)
(* The loops of sqrt_var, ln_var and exp_var_internal, one iteration per   *)
(* step.  call holds the local variables of the routine that is running    *)
(* and pc, the loop it is in.                                              *)
(***************************************************************************)
const_zero_point_five == NumericVar(1, -1, NUMERIC_POS, 1, <<5000>>)
const_zero_point_nine == NumericVar(1, -1, NUMERIC_POS, 1, <<9000>>)
const_zero_point_01 == NumericVar(1, -1, NUMERIC_POS, 2, <<100>>)
const_one_point_one == NumericVar(2, 0, NUMERIC_POS, 1, <<1, 1000>>)

\* the most steps (the call and the passes of its loops) one call is
\* followed for
MaxLoopSteps == 400

\* the locals of sqrt_var, ln_var, exp_var and exp_var_internal;
\* sqrt_rscale_arg is sqrt_var's rscale, ret the loop sqrt_var returns into
LoopIdle ==
    [op |-> "none", pc |-> "idle", arg |-> numeric_init, rscale |-> 0,
     local_rscale |-> 0, x |-> numeric_init, result |-> numeric_init,
     tmp_arg |-> numeric_init, tmp_val |-> numeric_init,
     last_val |-> numeric_init, sqrt_rscale_arg |-> 0, ret |-> "done",
     fact |-> numeric_init, xx |-> numeric_init, ni |-> numeric_init,
     elem |-> numeric_init, xpow |-> numeric_init, ifac |-> numeric_init,
     ndiv2 |-> 0, xneg |-> FALSE]

\* "Initialize the result to the first guess": alloc_var(result, 1) keeps
\* the dscale result had
sqrt_var_guess(tmp_arg, result) ==
    NumericVar(1, CDiv(tmp_arg.weight, 2), NUMERIC_POS, result.dscale,
               << IF Digit(tmp_arg.digits, 0) \div 2 = 0 THEN 1
                  ELSE Digit(tmp_arg.digits, 0) \div 2 >>)

\* the body of the for (;;) loop up to the comparison: [tmp_val, result]
sqrt_var_iterate(tmp_arg, result, tmp_val, local_rscale) ==
    CHOOSE r \in
      { [tmp_val |-> q,
         result |-> mul_var(add_var(result, q), const_zero_point_five,
                            local_rscale)] :
          q \in { div_var_fast(tmp_arg, result, tmp_val, local_rscale,
                               TRUE).result } } : TRUE

\* cmp_var(&last_val, result) == 0
sqrt_var_converged(last_val, result) == cmp_var(last_val, result) = 0

\* the return of sqrt_var into the routine that called it: numeric_sqrt
\* takes the result; ln_var's reduction loops take it as x and double fact
sqrt_var_return(c, result) ==
    IF c.ret = "done"
    THEN [c EXCEPT !.pc = "done", !.result = result]
    ELSE [c EXCEPT !.pc = c.ret, !.x = result,
                   !.fact = mul_var(c.fact, const_two, 0)]

\* sqrt_var(arg, result, rscale) up to its loop, for a result variable that
\* holds prior; arg is not negative here
sqrt_var_enter(c, arg, prior, rscale, ret) ==
    IF cmp_var(arg, const_zero) = 0
    THEN sqrt_var_return([c EXCEPT !.ret = ret],
                         NumericVar(0, 0, NUMERIC_POS, rscale, <<>>))
    ELSE [c EXCEPT !.pc = "sqrt_newton", !.ret = ret,
                   !.sqrt_rscale_arg = rscale,
                   !.tmp_arg = set_var_from_var(arg),
                   !.tmp_val = numeric_init,
                   !.result = sqrt_var_guess(arg, prior),
                   !.last_val = sqrt_var_guess(arg, prior)]

\* one iteration of Newton's loop; after the last one, round_var and return
sqrt_var_step(c) ==
    CHOOSE n \in
      { IF sqrt_var_converged(c.last_val, it.result)
        THEN sqrt_var_return([c EXCEPT !.tmp_val = it.tmp_val],
                             round_var(it.result, c.sqrt_rscale_arg))
        ELSE [c EXCEPT !.tmp_val = it.tmp_val, !.result = it.result,
                       !.last_val = set_var_from_var(it.result)] :
          it \in { sqrt_var_iterate(c.tmp_arg, c.result, c.tmp_val,
                                    c.sqrt_rscale_arg + 8) } } : TRUE

\* (int) log10(n) for an int n >= 1
RECURSIVE Log10Floor(_)
Log10Floor(n) == IF n < 10 THEN 0 ELSE 1 + Log10Floor(n \div 10)

\* the scale numeric_ln chooses
ln_rscale(num) ==
    LET dec_digits == (num.weight + 1) * DEC_DIGITS
        rscale == IF dec_digits > 1
                  THEN NUMERIC_MIN_SIG_DIGITS - Log10Floor(dec_digits - 1)
                  ELSE IF dec_digits < 1
                  THEN NUMERIC_MIN_SIG_DIGITS - Log10Floor(1 - dec_digits)
                  ELSE NUMERIC_MIN_SIG_DIGITS
    IN  Min(Max(Max(rscale, num.dscale), NUMERIC_MIN_DISPLAY_SCALE),
            NUMERIC_MAX_DISPLAY_SCALE)

\* ln_var up to its first loop, for an arg above zero
ln_var_enter(arg, rscale) ==
    [LoopIdle EXCEPT !.op = "numeric_ln", !.pc = "ln_reduce_low",
                     !.arg = arg, !.rscale = rscale,
                     !.local_rscale = rscale + 8,
                     !.x = set_var_from_var(arg),
                     !.fact = set_var_from_var(const_two)]

\* ln_var from the end of the reduction loops to the series loop
ln_var_series_enter(c) ==
    CHOOSE n \in
      { [c EXCEPT !.pc = "ln_series",
                  !.elem = add_var(c.x, const_one),
                  !.result = z,
                  !.xx = set_var_from_var(z),
                  !.x = mul_var(z, z, c.local_rscale),
                  !.ni = set_var_from_var(const_one)] :
          z \in { div_var_fast(sub_var(c.x, const_one),
                               add_var(c.x, const_one),
                               sub_var(c.x, const_one),
                               c.local_rscale, TRUE).result } } : TRUE

\* while (cmp_var(&x, &const_zero_point_nine) <= 0): the test and, when it
\* holds, the body up to sqrt_var's loop
ln_var_reduce_low_step(c) ==
    IF cmp_var(c.x, const_zero_point_nine) <= 0
    THEN sqrt_var_enter([c EXCEPT !.local_rscale = c.local_rscale + 1],
                        c.x, c.x, c.local_rscale + 1, "ln_reduce_low")
    ELSE [c EXCEPT !.pc = "ln_reduce_high"]

\* while (cmp_var(&x, &const_one_point_one) >= 0), likewise
ln_var_reduce_high_step(c) ==
    IF cmp_var(c.x, const_one_point_one) >= 0
    THEN sqrt_var_enter([c EXCEPT !.local_rscale = c.local_rscale + 1],
                        c.x, c.x, c.local_rscale + 1, "ln_reduce_high")
    ELSE ln_var_series_enter(c)

\* "Compensate for argument range reduction, round to requested rscale"
ln_var_return(c) ==
    [c EXCEPT !.pc = "done", !.result = mul_var(c.result, c.fact, c.rscale)]

\* elem.weight < (result->weight - local_rscale * 2 / DEC_DIGITS)
ln_var_term_small(elem, result, local_rscale) ==
    elem.weight < result.weight - CDiv(local_rscale * 2, DEC_DIGITS)

\* one iteration of the series loop of ln_var
ln_var_series_step(c) ==
    CHOOSE n \in
      { IF t.elem.ndigits = 0
        THEN ln_var_return([c EXCEPT !.ni = t.ni, !.xx = t.xx,
                                     !.elem = t.elem])
        ELSE IF ln_var_term_small(t.elem, add_var(c.result, t.elem),
                                  c.local_rscale)
        THEN ln_var_return([c EXCEPT !.ni = t.ni, !.xx = t.xx,
                                     !.elem = t.elem,
                                     !.result = add_var(c.result, t.elem)])
        ELSE [c EXCEPT !.ni = t.ni, !.xx = t.xx, !.elem = t.elem,
                       !.result = add_var(c.result, t.elem)] :
          t \in { [ni |-> add_var(c.ni, const_two), xx |-> xx,
                   elem |-> div_var_fast(xx, add_var(c.ni, const_two),
                                         c.elem, c.local_rscale,
                                         TRUE).result] :
                    xx \in { mul_var(c.xx, c.x, c.local_rscale) } } } : TRUE

\* the scale numeric_exp chooses when num is below one in magnitude:
\* val * 0.434294481903252 is then between -1 and 1 and (int) val is 0
exp_rscale(num) ==
    Min(Max(Max(NUMERIC_MIN_SIG_DIGITS, num.dscale),
            NUMERIC_MIN_DISPLAY_SCALE), NUMERIC_MAX_DISPLAY_SCALE)

\* the calls of exp_var followed here: no integer part (xintval stays 0; for
\* a zero the extraction loop only lowers the weight to -1)
exp_varCovered(arg) == arg.weight < 0 \/ arg.ndigits = 0

\* exp_var up to the call of exp_var_internal, and that up to its first
\* loop; local_rscale is exp_var_internal's
exp_var_enter(arg, rscale) ==
    [LoopIdle EXCEPT !.op = "numeric_exp", !.pc = "exp_reduce",
                     !.arg = arg, !.rscale = rscale,
                     !.xneg = (arg.sign = NUMERIC_NEG),
                     !.local_rscale = rscale + MUL_GUARD_DIGITS * 2 + 8,
                     !.x = [set_var_from_var(arg)
                              EXCEPT !.sign = NUMERIC_POS,
                                     !.weight = IF arg.weight >= 0 THEN -1
                                                ELSE arg.weight]]

\* while (cmp_var(&x, &const_zero_point_01) > 0): the test and the body, or
\* the statements from the loop to the series loop
exp_var_internal_reduce_step(c) ==
    IF cmp_var(c.x, const_zero_point_01) > 0
    THEN [c EXCEPT !.ndiv2 = c.ndiv2 + 1,
                   !.local_rscale = c.local_rscale + 1,
                   !.x = mul_var(c.x, const_zero_point_five, c.x.dscale + 1)]
    ELSE [c EXCEPT !.pc = "exp_series",
                   !.result = add_var(const_one, c.x),
                   !.xpow = set_var_from_var(c.x),
                   !.ifac = set_var_from_var(const_one),
                   !.ni = set_var_from_var(const_one)]

\* one iteration of the series loop of exp_var_internal
exp_var_internal_series_step(c) ==
    CHOOSE n \in
      { IF t.elem.ndigits = 0
        THEN [c EXCEPT !.pc = "exp_square", !.ni = t.ni, !.xpow = t.xpow,
                       !.ifac = t.ifac, !.elem = t.elem]
        ELSE [c EXCEPT !.ni = t.ni, !.xpow = t.xpow, !.ifac = t.ifac,
                       !.elem = t.elem,
                       !.result = add_var(c.result, t.elem)] :
          t \in { [ni |-> add_var(c.ni, const_one), xpow |-> p.xpow,
                   ifac |-> p.ifac,
                   elem |-> div_var_fast(p.xpow, p.ifac, c.elem,
                                         c.local_rscale, TRUE).result] :
                    p \in { [xpow |-> mul_var(c.xpow, c.x, c.local_rscale),
                             ifac |-> mul_var(c.ifac,
                                              add_var(c.ni, const_one),
                                              0)] } } } : TRUE

\* while (ndiv2-- > 0): the test and the body, or exp_var's last statements
exp_var_internal_square_step(c) ==
    IF c.ndiv2 > 0
    THEN [c EXCEPT !.ndiv2 = c.ndiv2 - 1,
                   !.result = mul_var(c.result, c.result, c.local_rscale)]
    ELSE [c EXCEPT !.pc = "done", !.ndiv2 = c.ndiv2 - 1,
                   !.result =
                     IF c.xneg
                     THEN div_var_fast(const_one, c.result, c.result,
                                       c.rscale, TRUE).result
                     ELSE round_var(c.result, c.rscale)]

\* 2; 0.5; 100; 1; 0; 3.7; 0.25; 0.0001; -0.5; 12345678.9; 0.95;
\* and 10^-2101, as numeric_from_str gives it for "0." and 2100 zeros and 1
LoopOperands ==
    { NumericVar(1, 0, NUMERIC_POS, 0, <<2>>),
      NumericVar(1, -1, NUMERIC_POS, 1, <<5000>>),
      NumericVar(1, 0, NUMERIC_POS, 0, <<100>>),
      NumericVar(1, 0, NUMERIC_POS, 0, <<1>>),
      NumericVar(0, 0, NUMERIC_POS, 0, <<>>),
      NumericVar(2, 0, NUMERIC_POS, 1, <<3, 7000>>),
      NumericVar(1, -1, NUMERIC_POS, 2, <<2500>>),
      NumericVar(1, -1, NUMERIC_POS, 4, <<1>>),
      NumericVar(1, -1, NUMERIC_NEG, 1, <<5000>>),
      NumericVar(3, 1, NUMERIC_POS, 1, <<1234, 5678, 9000>>),
      NumericVar(1, -1, NUMERIC_POS, 2, <<9500>>),
      NumericVar(1, -526, NUMERIC_POS, 2101, <<1000>>) }

\* nops counts the steps taken: the call and each pass of a loop
InitLoops ==
    /\ \E x \in LoopOperands :
          decimals = [i \in Decimals |-> IF i = 1 THEN x ELSE numeric_init]
    /\ call = LoopIdle
    /\ str = <<>>
    /\ nops = 0

\* numeric_sqrt up to sqrt_var's loop
CallSqrtLoop ==
    /\ call.pc = "idle"
    /\ ~NUMERIC_IS_NAN(decimals[1])
    /\ cmp_var(decimals[1], const_zero) >= 0
    /\ call' = sqrt_var_enter([LoopIdle EXCEPT !.op = "numeric_sqrt",
                                               !.arg = decimals[1],
                                               !.rscale =
                                                  sqrt_rscale(decimals[1])],
                              decimals[1], numeric_init,
                              sqrt_rscale(decimals[1]), "done")
    /\ nops' = nops + 1
    /\ UNCHANGED <<decimals, str>>

\* numeric_ln up to ln_var's first loop
CallLnLoop ==
    /\ call.pc = "idle"
    /\ ~NUMERIC_IS_NAN(decimals[1])
    /\ cmp_var(decimals[1], const_zero) > 0
    /\ call' = ln_var_enter(decimals[1], ln_rscale(decimals[1]))
    /\ nops' = nops + 1
    /\ UNCHANGED <<decimals, str>>

\* numeric_exp up to exp_var_internal's first loop
CallExpLoop ==
    /\ call.pc = "idle"
    /\ ~NUMERIC_IS_NAN(decimals[1])
    /\ exp_varCovered(decimals[1])
    /\ call' = exp_var_enter(decimals[1], exp_rscale(decimals[1]))
    /\ nops' = nops + 1
    /\ UNCHANGED <<decimals, str>>

\* Newton's loop of sqrt_var: one pass
SqrtNewtonStep ==
    /\ call.pc = "sqrt_newton"
    /\ nops < MaxLoopSteps
    /\ call' = sqrt_var_step(call)
    /\ nops' = nops + 1
    /\ UNCHANGED <<decimals, str>>

\* the first reduction loop of ln_var: its test, and the pass up to sqrt_var
LnReduceLowStep ==
    /\ call.pc = "ln_reduce_low"
    /\ nops < MaxLoopSteps
    /\ call' = ln_var_reduce_low_step(call)
    /\ nops' = nops + 1
    /\ UNCHANGED <<decimals, str>>

\* the second reduction loop of ln_var
LnReduceHighStep ==
    /\ call.pc = "ln_reduce_high"
    /\ nops < MaxLoopSteps
    /\ call' = ln_var_reduce_high_step(call)
    /\ nops' = nops + 1
    /\ UNCHANGED <<decimals, str>>

\* the series loop of ln_var: one pass
LnSeriesStep ==
    /\ call.pc = "ln_series"
    /\ nops < MaxLoopSteps
    /\ call' = ln_var_series_step(call)
    /\ nops' = nops + 1
    /\ UNCHANGED <<decimals, str>>

\* the reduction loop of exp_var_internal: its test and one pass
ExpReduceStep ==
    /\ call.pc = "exp_reduce"
    /\ nops < MaxLoopSteps
    /\ call' = exp_var_internal_reduce_step(call)
    /\ nops' = nops + 1
    /\ UNCHANGED <<decimals, str>>

\* the series loop of exp_var_internal: one pass
ExpSeriesStep ==
    /\ call.pc = "exp_series"
    /\ nops < MaxLoopSteps
    /\ call' = exp_var_internal_series_step(call)
    /\ nops' = nops + 1
    /\ UNCHANGED <<decimals, str>>

\* the squaring loop of exp_var_internal: its test and one pass
ExpSquareStep ==
    /\ call.pc = "exp_square"
    /\ nops < MaxLoopSteps
    /\ call' = exp_var_internal_square_step(call)
    /\ nops' = nops + 1
    /\ UNCHANGED <<decimals, str>>

NextLoops ==
    \/ CallSqrtLoop
    \/ CallLnLoop
    \/ CallExpLoop
    \/ SqrtNewtonStep
    \/ LnReduceLowStep
    \/ LnReduceHighStep
    \/ LnSeriesStep
    \/ ExpReduceStep
    \/ ExpSeriesStep
    \/ ExpSquareStep

SpecLoops == InitLoops /\ [][NextLoops]_vars

\* the loops from which sqrt_var is called
ReductionLoops == {"ln_reduce_low", "ln_reduce_high"}

\* a pass of Newton's loop, of a reduction loop of ln_var (sqrt_var returns
\* into the loop at once for a zero, and from Newton's loop otherwise: then
\* tmp_arg is the x the pass began with) or of the reduction loop of
\* exp_var_internal leaves the value the loop's test reads, result or x,
\* different from what it was
PassMovesValue ==
    /\ (call.pc = "sqrt_newton" /\ call'.pc = "sqrt_newton")
          => cmp_var(call'.result, call.result) # 0
    /\ (call.pc = "sqrt_newton" /\ call'.pc \in ReductionLoops)
          => cmp_var(call'.x, call.tmp_arg) # 0
    /\ (call.pc \in ReductionLoops /\ call'.pc = call.pc)
          => cmp_var(call'.x, call.x) # 0
    /\ (call.pc = "exp_reduce" /\ call'.pc = "exp_reduce")
          => cmp_var(call'.x, call.x) # 0

\* C27: every loop of sqrt, ln and exp terminates, for every valid input and
\* every result scale.  A loop whose pass leaves the value its test reads
\* where it was goes round for ever, so no pass does: Newton's iterate and
\* the x of the reduction loops move with every pass.
C27_LoopsTerminate == [][PassMovesValue]_vars

\* the same for the passes that do not call sqrt_var with a zero
C27_LoopsTerminateFromNonzero ==
    [][(call.pc \in ReductionLoops /\ call.x.ndigits = 0)
          \/ PassMovesValue]_vars

\* ln_var's first reduction loop is at its test again with x = 0, which
\* sqrt_var leaves at 0, for an argument that is not zero
C27_Witness ==
    /\ call.op = "numeric_ln"
    /\ call.pc = "ln_reduce_low"
    /\ call.x.ndigits = 0
    /\ call.arg.ndigits # 0
    /\ call.fact.ndigits > 1

\* a call of numeric_ln has returned after its loops and Newton's
C27_WitnessReturned ==
    /\ call.op = "numeric_ln"
    /\ call.pc = "done"
    /\ nops >= 20

\* ENABLED <<NextLoops>>_vars: a call can start, or the running routine is
\* in a loop and is still followed
LoopsRunning ==
    /\ nops < MaxLoopSteps
    /\ \/ /\ call.pc = "idle"
          /\ ~NUMERIC_IS_NAN(decimals[1])
          /\ \/ cmp_var(decimals[1], const_zero) >= 0
             \/ exp_varCovered(decimals[1])
       \/ call.pc \notin {"idle", "done"}

\* every step of NextLoops counts in nops, and only those do
LoopTick == LoopsRunning /\ nops' = nops + 1

\* the routines are sequential code: a call that can take its next step
\* takes it.  (Every step of NextLoops is a LoopTick step and LoopTick is
\* enabled where NextLoops is, so this is weak fairness of NextLoops.)
SpecLoopsFair == SpecLoops /\ WF_nops(LoopTick)

\* every call that has started returns
C27_LoopsReturn == (call.pc # "idle") ~> (call.pc = "done")

\* the calls with an argument of at most NUMERIC_MAX_DISPLAY_SCALE
\* fractional digits return
C27_LoopsReturnAtDisplayScale ==
    (call.pc # "idle" /\ call.arg.dscale <= NUMERIC_MAX_DISPLAY_SCALE)
        ~> (call.pc = "done")

=============================================================================
